---- MODULE Spec2Model ----
(***************************************************************************)
(* MnemonicNexus: the event-sourcing spine.                                *)
(*                                                                         *)
(*   Spec     the Gateway's append path (services/gateway) over the event  *)
(*            log, the outbox and the global_seq generator, with several   *)
(*            request handlers suspended at their database awaits.         *)
(*   GatewaySpec the same append path over requests that differ in kind,   *)
(*            payload, agent and headers, for what validation lets through *)
(*            and what the answers carry.                                  *)
(*   PubSpec  the CDC Publisher (services/publisher) draining the outbox   *)
(*            to the projectors' reception endpoint (projectors/sdk), with *)
(*            retry and the dead-letter queue. LiveSpec adds the fairness  *)
(*            of the publisher's polling loop.                             *)
(*   ApplySpec the relational projector's apply (projectors/relational)    *)
(*            over the tables of its lens, with the database clock that    *)
(*            its statements read through now().                           *)
(*   ReceiveSpec the reception endpoint (projectors/sdk) around the        *)
(*            relational projector's apply, with applies that fail.        *)
(*   TenantSpec database sessions reading and writing the tenant-scoped    *)
(*            tables under a world context (services/common/tenancy.py).   *)
(*   TranslatorSpec the memory-to-EMO translator (projectors/              *)
(*            translator_memory_to_emo) with its version cache, its        *)
(*            handlers suspended at their awaits, and its restart.         *)
(*   RedeliverySpec the translator when the publisher delivers an event    *)
(*            more than once.                                              *)
(*   WorkersSpec two publisher processes polling one outbox, each with    *)
(*            its batch, its delivery tasks and its shutdown.              *)
(*   ConcurrentSpec the reception endpoint with several requests in        *)
(*            flight, sharing the connections of the projector's pool.     *)
(***************************************************************************)
EXTENDS Integers, Sequences, FiniteSets, TLC

(***************************************************************************)
(* Bounds of the model.                                                    *)
(***************************************************************************)
\* Append requests the gateway receives in one run.
MaxRequests == 3

Worlds == {"wA", "wB"}
Branches == {"main"}

\* Envelope schema versions a client may send; 1 and 2 are supported.
Versions == {1, 3}

(***************************************************************************)
(* Strings are sequences of one-character strings, so that str.strip() is  *)
(* computed and not assumed.                                               *)
(***************************************************************************)
\* Idempotency-Key header values a client may send (when the header is present).
HeaderValues == { <<>>, <<" ">>, <<"k">>, <<"k", " ">> }

\* X-Correlation-Id header values: "" when the header is absent, a UUID, and
\* a value that uuid.UUID() does not parse.
NoCorrelationId == ""
CorrelationValues == { NoCorrelationId, "c-uuid", "junk" }

\* uuid.UUID(correlation_id) succeeds.
IsUuid(v) == v \in { "c-uuid" }

\* The two optional headers of an append: the Idempotency-Key, absent or
\* present with a value, and the X-Correlation-Id.
IdempotencyHeaders == { [present |-> FALSE, value |-> <<>>] } \cup { [present |-> TRUE, value |-> v] : v \in HeaderValues }

HeadersWith(correlation_ids) ==
    { [present |-> i.present, value |-> i.value, correlation_id |-> c] : i \in IdempotencyHeaders, c \in correlation_ids }

\* The headers of the appends of Spec: no X-Correlation-Id.
Headers == HeadersWith({NoCorrelationId})

\* SQL NULL / Python None for the stored idempotency key. A stored key is never
\* the empty string: validate_headers maps "" to None and rejects blank keys.
Null == <<>>

RECURSIVE LStrip(_)
LStrip(s) == IF s # <<>> /\ Head(s) = " " THEN LStrip(Tail(s)) ELSE s

RECURSIVE RStrip(_)
RStrip(s) == IF s # <<>> /\ s[Len(s)] = " " THEN RStrip(SubSeq(s, 1, Len(s) - 1)) ELSE s

\* str.strip()
Strip(s) == RStrip(LStrip(s))

\* Python truthiness of Optional[str]: None and "" are falsy.
Truthy(h) == h.present /\ h.value # <<>>

VARIABLES event_log, outbox, seq_gen, requests, assigned,
          batch, tasks, dlq, watermark, recv, delivery,
          rel_lens, clock, applied,
          session, query,
          emo_versions, emitted, translations, translator_run,
          workers, receptions, pool

\* The store, as the gateway and the publisher see it.
store_vars == <<event_log, outbox, seq_gen>>

\* The gateway's requests, and the order in which global_seq values were handed out.
gateway_vars == <<requests, assigned>>

\* The publisher's batch and the projectors' state.
publisher_vars == <<batch, tasks, dlq, watermark, recv, delivery>>

\* The relational projector's lens, the database clock and the last application.
projector_vars == <<rel_lens, clock, applied>>

\* A database session's world context and the outcome of its last statement.
tenant_vars == <<session, query>>

\* The translator's version cache, the events it emitted, its handlers and its run.
translator_vars == <<emo_versions, emitted, translations, translator_run>>

\* Concurrent publisher workers, and a projector's concurrent receptions with
\* the connections of its pool.
concurrent_vars == <<workers, receptions, pool>>

vars == <<event_log, outbox, seq_gen, requests, assigned, batch, tasks, dlq, watermark, recv, delivery,
          rel_lens, clock, applied, session, query,
          emo_versions, emitted, translations, translator_run,
          workers, receptions, pool>>

(***************************************************************************)
(* Gateway: validation (services/gateway/validation.py)                    *)
(***************************************************************************)
\* validate_headers raises ValidationError for a key that is blank after strip
\* and for a correlation id that is given and is not a UUID.
HeaderInvalid(h) ==
    \/ Truthy(h) /\ Len(Strip(h.value)) = 0
    \/ h.correlation_id # NoCorrelationId /\ ~IsUuid(h.correlation_id)

\* validate_headers' normalised idempotency_key.
NormalizedKey(h) == IF Truthy(h) THEN Strip(h.value) ELSE Null

\* An event kind is the sequence of its dot-separated parts and its dots.
NoteCreatedKind == <<"note", ".", "created">>

\* len(kind.split(".")) - 1
Dots(kind) == Cardinality({ i \in 1..Len(kind) : kind[i] = "." })

\* _validate_business_rules on the kind: it holds a dot, splits into exactly
\* two parts, and neither part is empty.
KindInvalid(kind) ==
    \/ Dots(kind) = 0
    \/ Dots(kind) + 1 # 2
    \/ kind[1] = "." \/ kind[Len(kind)] = "."

\* An empty dict is falsy.
EmptyPayload == [x \in {} |-> 0]

\* _validate_business_rules: kind of the form category.action, payload not
\* empty, version 1 or 2, by.agent not blank. (The branch names of Branches
\* match the format and the length that are required of them.)
EnvelopeInvalid(env) ==
    \/ KindInvalid(env.kind)
    \/ env.payload = EmptyPayload
    \/ env.version < 1 \/ env.version > 2
    \/ env.agent = <<>> \/ Len(Strip(env.agent)) = 0

\* The envelopes of the appends of Spec differ in stream and version only.
Envelopes == [world_id : Worlds, branch : Branches, version : Versions,
              kind : {NoteCreatedKind}, payload : {[id |-> "n1"]}, agent : {<<"a">>}]

\* hashlib.sha256(...).hexdigest(), collision-free.
Sha256(text) == <<"sha256", text>>

\* json.dumps(obj, sort_keys=True, separators=(",", ":")): the text is a
\* function of the object's keys and values, not of their order.
CanonicalJson(obj) == <<"json", obj>>

\* store_event: envelope.dict() enriched with received_at.
EnrichedEnvelope(env, received_at) ==
    [world_id |-> env.world_id, branch |-> env.branch, kind |-> env.kind, payload |-> env.payload,
     by |-> [agent |-> env.agent], version |-> env.version,
     occurred_at |-> "null", causation_id |-> "null", received_at |-> received_at]

\* EventPersistence._compute_payload_hash(enriched_envelope)
ComputePayloadHash(envelope) == Sha256(CanonicalJson(envelope))

\* store_event: the envelope that is stored, and that the publisher forwards:
\* the enriched envelope with its payload_hash.
StoredEnvelope(env, received_at) ==
    [world_id |-> env.world_id, branch |-> env.branch, kind |-> env.kind, payload |-> env.payload,
     by |-> [agent |-> env.agent], version |-> env.version,
     occurred_at |-> "null", causation_id |-> "null", received_at |-> received_at,
     payload_hash |-> ComputePayloadHash(EnrichedEnvelope(env, received_at))]

\* ProjectorSDK._verify_payload_hash: the envelope without received_at and
\* payload_hash is hashed and compared with the hash supplied.
VerifyPayloadHash(envelope, expected_hash) ==
    LET canonical_envelope == [k \in DOMAIN envelope \ {"received_at", "payload_hash"} |-> envelope[k]]
    IN  Sha256(CanonicalJson(canonical_envelope)) = expected_hash

\* create_event: the correlation id is the header's, or a fresh uuid4.
GeneratedCorrelationIds == <<"uuid4-1", "uuid4-2", "uuid4-3", "uuid4-4">>

CorrelationId(h, n) == IF h.correlation_id = NoCorrelationId THEN GeneratedCorrelationIds[n] ELSE h.correlation_id

\* JSON null.
JsonNull == "null"

\* The attributes of a dict: its methods, not its keys.
DictAttributes == {"get", "keys", "values", "items", "pop", "update", "copy", "clear"}

\* getattr(detail, name, default) with detail a dict.
GetAttr(detail, name, default) == IF name \in DictAttributes THEN <<"method", name>> ELSE default

\* The detail create_event gives its HTTPException.
ErrorDetail(code, correlation_id) == [code |-> code, message |-> code, correlation_id |-> correlation_id]

\* http_exception_handler: the body of an error response, from a dict detail.
HttpExceptionHandler(detail) ==
    [code |-> GetAttr(detail, "code", "http_error"),
     message |-> GetAttr(detail, "message", <<"str", detail>>),
     correlation_id |-> GetAttr(detail, "correlation_id", JsonNull)]

(***************************************************************************)
(* Store: event_core.event_log, event_core.outbox and the global_seq       *)
(* sequence. The SQL of insert_event_with_outbox is not part of the Python *)
(* sources; it is modelled from the design (one transaction: assign        *)
(* global_seq from the generator, insert the log row, insert the outbox    *)
(* row; (world_id, branch, idempotency_key) unique when the key is there). *)
(***************************************************************************)
LogRow(seq, eid, w, b, k) == [global_seq |-> seq, event_id |-> eid, world_id |-> w, branch |-> b, idempotency_key |-> k]

OutboxRow(seq, eid, w, b) == [global_seq |-> seq, event_id |-> eid, world_id |-> w, branch |-> b, published |-> FALSE, attempts |-> 0, retry_wait |-> 0]

\* The generator: nextval of the global_seq sequence.
NextValBroken(g) == IF g = 0 THEN 1 ELSE g

NextVal(g) == g + 1

\* The unique index on (world_id, branch, idempotency_key), NULL keys exempt.
UniqueViolationNever(log, w, b, k) == FALSE

UniqueViolation(log, w, b, k) == k # Null /\ \E r \in log : r.world_id = w /\ r.branch = b /\ r.idempotency_key = k

\* _check_idempotency: the committed log rows with this tuple.
CheckIdempotencyBlind(log, w, b, k) == {}

CheckIdempotency(log, w, b, k) == { r \in log : r.world_id = w /\ r.branch = b /\ r.idempotency_key = k }

\* Leaving `async with conn.transaction()` normally: the log row and the outbox
\* row of the transaction become visible together.
TxnCommitLogOnly(log, ob, req) == <<log \cup {LogRow(req.global_seq, req.event_id, req.world_id, req.branch, req.key)}, ob>>

TxnCommit(log, ob, req) == <<log \cup {LogRow(req.global_seq, req.event_id, req.world_id, req.branch, req.key)}, ob @@ (req.global_seq :> OutboxRow(req.global_seq, req.event_id, req.world_id, req.branch))>>

(***************************************************************************)
(* Gateway: create_event / store_event, one request per index of requests, *)
(* suspended at each await on the database.                                *)
(***************************************************************************)
NoRow == LogRow(0, 0, "", "", Null)

\* The append route declares no status_code, so the framework answers 200 on
\* success; 201 is only what the handler records in its metrics.
AcceptedStatus == 200

\* The answer of create_event: EventAccepted, or the HTTPException that
\* http_exception_handler turns into the response's body.
Response(req, kind, status) ==
    [req EXCEPT !.pc = "done", !.kind = kind, !.status = status,
                !.body = IF kind = "accepted"
                         THEN [code |-> "", message |-> "", correlation_id |-> req.correlation_id]
                         ELSE HttpExceptionHandler(ErrorDetail(kind, req.correlation_id))]

\* A request arrives; headers and envelope are validated before any await.
CreateEvent(env, h) ==
    /\ Len(requests) < MaxRequests
    /\ LET n == Len(requests) + 1
           k == IF HeaderInvalid(h) THEN Null ELSE NormalizedKey(h)
           seen == { r \in event_log : k # Null /\ r.world_id = env.world_id /\ r.branch = env.branch /\ r.idempotency_key = k }
           req == [world_id |-> env.world_id, branch |-> env.branch, key |-> k,
                   event_id |-> 0, global_seq |-> 0, pc |-> "check", kind |-> "", status |-> 0,
                   correlation_id |-> CorrelationId(h, n),
                   event_kind |-> env.kind, payload |-> env.payload,
                   payload_hash |-> IF HeaderInvalid(h) \/ EnvelopeInvalid(env) THEN <<>>
                                    ELSE ComputePayloadHash(EnrichedEnvelope(env, clock)),
                   envelope |-> IF HeaderInvalid(h) \/ EnvelopeInvalid(env) THEN <<>>
                                ELSE StoredEnvelope(env, clock),
                   body |-> [code |-> "", message |-> "", correlation_id |-> ""],
                   prior |-> IF seen = {} THEN NoRow ELSE CHOOSE r \in seen : TRUE]
       IN  requests' = Append(requests,
               IF HeaderInvalid(h) \/ EnvelopeInvalid(env)
               THEN Response(req, "validation_error", 400)
               ELSE req)
    /\ UNCHANGED <<event_log, outbox, seq_gen, assigned, publisher_vars, projector_vars, tenant_vars, translator_vars, concurrent_vars>>

\* Appends of one run of the gateway's request model.
MaxGatewayRequests == 2

MemoryItemUpsertedKind == <<"memory", ".", "item", ".", "upserted">>
MemoryItemDeletedKind == <<"memory", ".", "item", ".", "deleted">>

\* Kinds a client may send: two-part and three-part kinds, and one without a dot.
GatewayKinds == { NoteCreatedKind, MemoryItemUpsertedKind, MemoryItemDeletedKind, <<"note">> }

\* Envelopes that pass the schema of EventEnvelope, with good and bad kinds,
\* payloads and agents.
GatewayEnvelopes == [world_id : {"wA"}, branch : Branches, version : {1},
                     kind : GatewayKinds, payload : {[id |-> "n1"], EmptyPayload}, agent : {<<"a">>, <<" ">>}]

GatewayHeaders == HeadersWith(CorrelationValues)

\* A request of the gateway's request model arrives.
GatewayCreateEvent(env, h) ==
    /\ Len(requests) < MaxGatewayRequests
    /\ CreateEvent(env, h)

\* store_event, inside the transaction: the idempotency check.
StoreEventCheck(i) ==
    /\ requests[i].pc = "check"
    /\ LET req == requests[i]
           existing == IF req.key # Null THEN CheckIdempotency(event_log, req.world_id, req.branch, req.key) ELSE {}
       IN  requests' = [requests EXCEPT ![i] =
               IF existing # {} THEN Response(req, "idempotency_conflict", 409)
               ELSE [req EXCEPT !.pc = "insert", !.event_id = i]]
    /\ UNCHANGED <<event_log, outbox, seq_gen, assigned, publisher_vars, projector_vars, tenant_vars, translator_vars, concurrent_vars>>

\* Another open transaction holds an uncommitted row with the same tuple: the
\* insert waits on the unique index until that transaction ends.
BlockedOnIndex(i) ==
    \E j \in 1..Len(requests) :
        /\ j # i
        /\ requests[j].pc = "commit"
        /\ UniqueViolation({LogRow(requests[j].global_seq, requests[j].event_id, requests[j].world_id, requests[j].branch, requests[j].key)},
                           requests[i].world_id, requests[i].branch, requests[i].key)

\* store_event: the call of insert_event_with_outbox.
StoreEventInsert(i, db_error) ==
    /\ requests[i].pc = "insert"
    /\ ~BlockedOnIndex(i)
    /\ LET req == requests[i]
           failed == db_error \/ UniqueViolation(event_log, req.world_id, req.branch, req.key)
       IN  /\ seq_gen' = NextVal(seq_gen)
           /\ requests' = [requests EXCEPT ![i] =
                  IF failed THEN Response(req, "internal_error", 500)
                  ELSE [req EXCEPT !.pc = "commit", !.global_seq = seq_gen']]
           /\ assigned' = IF failed THEN assigned ELSE Append(assigned, seq_gen')
    /\ UNCHANGED <<event_log, outbox, publisher_vars, projector_vars, tenant_vars, translator_vars, concurrent_vars>>

\* store_event: the transaction block is left; create_event answers.
StoreEventCommit(i, db_error) ==
    /\ requests[i].pc = "commit"
    /\ LET req == requests[i]
           committed == TxnCommit(event_log, outbox, req)
       IN  IF db_error
           THEN /\ requests' = [requests EXCEPT ![i] = Response([req EXCEPT !.global_seq = 0], "internal_error", 500)]
                /\ UNCHANGED <<event_log, outbox>>
           ELSE /\ event_log' = committed[1]
                /\ outbox' = committed[2]
                /\ requests' = [requests EXCEPT ![i] = Response(req, "accepted", AcceptedStatus)]
    /\ UNCHANGED <<seq_gen, assigned, publisher_vars, projector_vars, tenant_vars, translator_vars, concurrent_vars>>

(***************************************************************************)
(* CDC Publisher (services/publisher/main.py) and the projectors'          *)
(* reception endpoint (projectors/sdk/projector.py).                       *)
(*                                                                         *)
(* The SQL of get_unpublished_batch, mark_published, mark_retry and        *)
(* move_to_dlq is not part of the Python sources; these four are modelled  *)
(* from the design, the threshold from RetryHandler.should_move_to_dlq.    *)
(***************************************************************************)
\* Events appended in one run of the publisher's model.
MaxEvents == 2

\* CDC_BATCH_SIZE of the modelled deployment.
BatchSize == 2

\* Clock ticks until a scheduled retry is due (the delay handed to mark_retry).
RetryTicks == 1

\* RetryHandler.MAX_RETRIES / CDC_MAX_PROCESSING_ATTEMPTS.
MAX_RETRIES == 10

\* CDC_PROJECTOR_ENDPOINTS, in the order _publish_event walks them.
Endpoints == <<"projector_rel", "projector_graph">>

Projectors == { Endpoints[i] : i \in 1..Len(Endpoints) }

\* A stream is (world_id, branch).
Streams == Worlds \X Branches

StreamOf(row) == <<row.world_id, row.branch>>

\* The status a subscriber answers a delivery with: the event was processed
\* (200, 202), rejected (400), found already applied (409), or failed (500; a
\* timeout or a connection error raises in the same place).
Outcomes == {200, 202, 400, 409, 500}

\* _send_to_projector raises unless resp.status is 200 or 202.
ReplyOk(status) == status \in {200, 202}

\* Variant: the task's result is the last endpoint's.
TaskSuccessOfLast(success, status) == ReplyOk(status)

\* _publish_event: success stays True only while no endpoint has failed.
TaskSuccess(success, status) == success /\ ReplyOk(status)

RECURSIVE Ascending(_)
Ascending(S) ==
    IF S = {} THEN <<>>
    ELSE LET m == CHOOSE x \in S : \A y \in S : x <= y
         IN  <<m>> \o Ascending(S \ {m})

FirstN(seq, n) == SubSeq(seq, 1, IF Len(seq) < n THEN Len(seq) ELSE n)

\* get_unpublished_batch(n): the global_seq of the unpublished rows that are
\* due, in ascending order, at most n of them.
GetUnpublishedBatch(ob, n) ==
    FirstN(Ascending({ s \in DOMAIN ob : ~ob[s].published /\ ob[s].retry_wait = 0 }), n)

\* mark_published(global_seq)
MarkPublished(row) == [row EXCEPT !.published = TRUE]

\* RetryHandler.should_move_to_dlq
ShouldMoveToDlq(attempt) == attempt >= MAX_RETRIES

\* mark_retry(global_seq, error, delay): count the attempt and schedule the retry.
MarkRetry(row) == [row EXCEPT !.attempts = @ + 1, !.retry_wait = RetryTicks]

\* The value mark_retry returns: FALSE once the counted attempts reach the
\* threshold, which is the one of RetryHandler.should_move_to_dlq.
MarkRetryOkNever(retried) == FALSE

MarkRetryOkLate(retried) == retried.attempts <= MAX_RETRIES

MarkRetryOkEarly(retried) == retried.attempts < MAX_RETRIES - 1

MarkRetryOk(retried) == ~ShouldMoveToDlq(retried.attempts)

\* move_to_dlq(global_seq, error, publisher_id): published_at is set, so that
\* the row is not fetched again.
MoveToDlq(row) == [row EXCEPT !.published = TRUE, !.retry_wait = 0]

\* One turn of _update_publish_status' loop, for one event of the batch and the
\* result of its task: the row afterwards, and whether it went to the DLQ.
UpdateRowPublishAny(row, result) ==
    [row |-> MarkPublished(row), dlq |-> FALSE, marked |-> 1]

UpdateRow(row, result) ==
    IF result = TRUE THEN [row |-> MarkPublished(row), dlq |-> FALSE, marked |-> 1]
    ELSE LET retried == MarkRetry(row)
             ok == MarkRetryOk(retried)
         IN  IF ok THEN [row |-> retried, dlq |-> FALSE, marked |-> 0]
             ELSE [row |-> MoveToDlq(retried), dlq |-> TRUE, marked |-> 0]

\* ProjectorSDK.set_watermark: the upsert's new last_processed_seq.
SetWatermark(old, global_seq) == global_seq

\* A gateway append that ran to its commit without interleaving (store_event).
AppendEvent(w, b) ==
    /\ seq_gen < MaxEvents
    /\ LET seq == NextVal(seq_gen)
           committed == TxnCommit(event_log, outbox, [global_seq |-> seq, event_id |-> seq, world_id |-> w, branch |-> b, key |-> Null])
       IN  /\ seq_gen' = seq
           /\ event_log' = committed[1]
           /\ outbox' = committed[2]
           /\ assigned' = Append(assigned, seq)
    /\ UNCHANGED <<requests, publisher_vars, projector_vars, tenant_vars, translator_vars, concurrent_vars>>

\* _poll_outbox: fetch a batch; _process_batch creates one task per event.
FetchBatch ==
    /\ batch = <<>>
    /\ LET fetched == GetUnpublishedBatch(outbox, BatchSize)
       IN  /\ fetched # <<>>
           /\ batch' = fetched
           /\ tasks' = [t \in 1..Len(fetched) |-> [next |-> 1, success |-> TRUE, rejected |-> FALSE]]
           /\ delivery' = [s \in DOMAIN delivery |->
                  IF \E t \in 1..Len(fetched) : fetched[t] = s THEN [delivery[s] EXCEPT !.acked = {}] ELSE delivery[s]]
    /\ UNCHANGED <<store_vars, gateway_vars, dlq, watermark, recv, projector_vars, tenant_vars, translator_vars, concurrent_vars>>

\* One step of the task _publish_event of the batch's event t: _send_to_projector
\* posts the event to the next endpoint, where receive_event applies it and sets
\* the watermark; any failure clears the task's success and the loop goes on.
SendToProjector(t, outcome) ==
    /\ t \in 1..Len(batch)
    /\ tasks[t].next <= Len(Endpoints)
    /\ LET seq == batch[t]
           p == Endpoints[tasks[t].next]
           st == StreamOf(outbox[seq])
       IN  /\ tasks' = [tasks EXCEPT ![t] = [next |-> @.next + 1, success |-> TaskSuccess(@.success, outcome),
                                              rejected |-> @.rejected \/ outcome = 400]]
           /\ IF ReplyOk(outcome)
              THEN /\ watermark' = [watermark EXCEPT ![p][st] = SetWatermark(@, seq)]
                   /\ recv' = [recv EXCEPT ![p][st] = [last |-> seq, max |-> IF seq > @.max THEN seq ELSE @.max]]
                   /\ delivery' = [delivery EXCEPT ![seq].acked = @ \cup {p}]
              ELSE UNCHANGED <<watermark, recv, delivery>>
    /\ UNCHANGED <<store_vars, gateway_vars, batch, dlq, projector_vars, tenant_vars, translator_vars, concurrent_vars>>

\* asyncio.gather has returned: _update_publish_status commits one outcome per
\* event of the batch, and the loop goes back to polling.
UpdatePublishStatus ==
    /\ batch # <<>>
    /\ \A t \in 1..Len(batch) : tasks[t].next > Len(Endpoints)
    /\ LET TaskOf(s) == CHOOSE t \in 1..Len(batch) : batch[t] = s
           InBatch(s) == \E t \in 1..Len(batch) : batch[t] = s
           upd(s) == UpdateRow(outbox[s], tasks[TaskOf(s)].success)
       IN  /\ outbox' = [s \in DOMAIN outbox |-> IF InBatch(s) THEN upd(s).row ELSE outbox[s]]
           /\ dlq' = dlq \cup { s \in DOMAIN outbox : InBatch(s) /\ upd(s).dlq }
           /\ delivery' = [s \in DOMAIN delivery |->
                  IF InBatch(s)
                  THEN [delivery[s] EXCEPT !.mark_published = @ + upd(s).marked,
                                           !.failures = @ + (IF tasks[TaskOf(s)].success THEN 0 ELSE 1)]
                  ELSE delivery[s]]
    /\ batch' = <<>>
    /\ tasks' = <<>>
    /\ UNCHANGED <<event_log, seq_gen, gateway_vars, watermark, recv, projector_vars, tenant_vars, translator_vars, concurrent_vars>>

\* Time passes: scheduled retries come closer to due.
Tick ==
    /\ \E s \in DOMAIN outbox : outbox[s].retry_wait > 0
    /\ outbox' = [s \in DOMAIN outbox |-> [outbox[s] EXCEPT !.retry_wait = IF @ > 0 THEN @ - 1 ELSE 0]]
    /\ UNCHANGED <<event_log, seq_gen, gateway_vars, publisher_vars, projector_vars, tenant_vars, translator_vars, concurrent_vars>>

(***************************************************************************)
(* The relational projector's apply (ApplySpec)                            *)
(***************************************************************************)
\* Events applied in one run.
MaxApplies == 3

\* The latest reading of the database clock now().
MaxClock == 2

\* payload.get(...) of a timestamp the payload does not carry, and a timestamp
\* column that is NULL.
None == -1

\* COALESCE($n::timestamptz, now())
Coalesce(ts, now) == IF ts = None THEN now ELSE ts

\* RelationalProjector._compute_emo_content_hash
ComputeEmoContentHash(content) == <<"sha256", content>>

\* The tables of lens_rel and lens_emo the projector writes. Of the columns of
\* lens_emo.emo_current, content stands for content, tags and mime_type, which
\* the same statements write from the payload.
EmptyLens ==
    [note |-> {}, note_tag |-> {}, link |-> {},
     emo_current |-> {}, emo_history |-> {}, emo_links |-> <<>>]

InStream(row, w, b) == row.world_id = w /\ row.branch = b

\* _handle_note_created: INSERT ... ON CONFLICT (world_id, branch, note_id) DO NOTHING
HandleNoteCreated(lens, w, b, payload, now) ==
    IF \E n \in lens.note : InStream(n, w, b) /\ n.note_id = payload.id THEN lens
    ELSE [lens EXCEPT !.note = @ \cup
             {[world_id |-> w, branch |-> b, note_id |-> payload.id,
               title |-> payload.title, body |-> payload.body,
               created_at |-> Coalesce(payload.created_at, now),
               updated_at |-> Coalesce(payload.created_at, now)]}]

\* _handle_note_updated: UPDATE ... SET title, body, updated_at = COALESCE($6, now())
HandleNoteUpdated(lens, w, b, payload, now) ==
    [lens EXCEPT !.note =
        { IF InStream(n, w, b) /\ n.note_id = payload.id
          THEN [n EXCEPT !.title = payload.title, !.body = payload.body,
                         !.updated_at = Coalesce(payload.updated_at, now)]
          ELSE n : n \in @ }]

\* _handle_note_deleted: the soft delete sets updated_at = now(), then the
\* note's tags and links are deleted.
HandleNoteDeleted(lens, w, b, payload, now) ==
    [lens EXCEPT
        !.note = { IF InStream(n, w, b) /\ n.note_id = payload.id
                   THEN [n EXCEPT !.updated_at = now] ELSE n : n \in @ },
        !.note_tag = { t \in @ : ~(InStream(t, w, b) /\ t.note_id = payload.id) },
        !.link = { l \in @ : ~(InStream(l, w, b) /\ (l.src_id = payload.id \/ l.dst_id = payload.id)) }]

\* _handle_tag_added: INSERT ... ON CONFLICT (world_id, branch, note_id, tag) DO NOTHING
HandleTagAdded(lens, w, b, payload, now) ==
    IF \E t \in lens.note_tag : InStream(t, w, b) /\ t.note_id = payload.id /\ t.tag = payload.tag THEN lens
    ELSE [lens EXCEPT !.note_tag = @ \cup
             {[world_id |-> w, branch |-> b, note_id |-> payload.id, tag |-> payload.tag,
               applied_at |-> Coalesce(payload.applied_at, now)]}]

\* _handle_tag_removed
HandleTagRemoved(lens, w, b, payload) ==
    [lens EXCEPT !.note_tag =
        { t \in @ : ~(InStream(t, w, b) /\ t.note_id = payload.id /\ t.tag = payload.tag) }]

SameLink(l, w, b, payload) ==
    InStream(l, w, b) /\ l.src_id = payload.src /\ l.dst_id = payload.dst /\ l.link_type = payload.link_type

\* _handle_link_added: INSERT ... ON CONFLICT (world_id, branch, src_id, dst_id, link_type) DO NOTHING
HandleLinkAdded(lens, w, b, payload, now) ==
    IF \E l \in lens.link : SameLink(l, w, b, payload) THEN lens
    ELSE [lens EXCEPT !.link = @ \cup
             {[world_id |-> w, branch |-> b, src_id |-> payload.src, dst_id |-> payload.dst,
               link_type |-> payload.link_type, created_at |-> Coalesce(payload.created_at, now)]}]

\* _handle_link_removed
HandleLinkRemoved(lens, w, b, payload) ==
    [lens EXCEPT !.link = { l \in @ : ~SameLink(l, w, b, payload) }]

IsEmo(row, w, b, emo_id) == InStream(row, w, b) /\ row.emo_id = emo_id

\* _handle_emo_links: the EMO's links are deleted, then one row is inserted for
\* each parent and for each link of kind "emo" or "uri", with created_at = now().
HandleEmoLinks(lens, w, b, payload, now) ==
    LET kept == SelectSeq(lens.emo_links, LAMBDA r : ~IsEmo(r, w, b, payload.emo_id))
        parents == [i \in 1..Len(payload.parents) |->
                       [emo_id |-> payload.emo_id, world_id |-> w, branch |-> b,
                        rel |-> payload.parents[i].rel,
                        target_emo_id |-> payload.parents[i].emo_id, target_uri |-> "",
                        created_at |-> now]]
        known == SelectSeq(payload.links, LAMBDA l : l.kind \in {"emo", "uri"})
        links == [i \in 1..Len(known) |->
                     [emo_id |-> payload.emo_id, world_id |-> w, branch |-> b,
                      rel |-> "linked",
                      target_emo_id |-> IF known[i].kind = "emo" THEN known[i].ref ELSE "",
                      target_uri |-> IF known[i].kind = "uri" THEN known[i].ref ELSE "",
                      created_at |-> now]]
    IN  [lens EXCEPT !.emo_links = kept \o parents \o links]

\* INSERT INTO lens_emo.emo_history ... ON CONFLICT (emo_id, emo_version,
\* world_id, branch) DO NOTHING
InsertHistory(history, row) ==
    IF \E h \in history : IsEmo(h, row.world_id, row.branch, row.emo_id) /\ h.emo_version = row.emo_version
    THEN history
    ELSE history \cup {row}

HistoryRow(w, b, payload, operation_type, content, idempotency_key, updated_at) ==
    [emo_id |-> payload.emo_id, emo_version |-> payload.emo_version, world_id |-> w, branch |-> b,
     operation_type |-> operation_type, content_hash |-> ComputeEmoContentHash(content),
     idempotency_key |-> idempotency_key, updated_at |-> updated_at]

\* _handle_emo_created: INSERT ... ON CONFLICT (emo_id, world_id, branch) DO
\* NOTHING, then the history row, then the links.
HandleEmoCreated(lens, w, b, payload, now) ==
    LET current == IF \E e \in lens.emo_current : IsEmo(e, w, b, payload.emo_id)
                   THEN lens.emo_current
                   ELSE lens.emo_current \cup
                            {[emo_id |-> payload.emo_id, world_id |-> w, branch |-> b,
                              emo_type |-> payload.emo_type, emo_version |-> payload.emo_version,
                              content |-> payload.content, deleted |-> FALSE, deleted_at |-> None,
                              deletion_reason |-> "", updated_at |-> now]}
        history == InsertHistory(lens.emo_history, HistoryRow(w, b, payload, "", payload.content, "", now))
    IN  HandleEmoLinks([lens EXCEPT !.emo_current = current, !.emo_history = history], w, b, payload, now)

\* _handle_emo_updated: UPDATE ... SET emo_version, content, tags, mime_type,
\* updated_at = now(), then the history row, then the links.
HandleEmoUpdated(lens, w, b, payload, now) ==
    LET current == { IF IsEmo(e, w, b, payload.emo_id)
                     THEN [e EXCEPT !.emo_version = payload.emo_version, !.content = payload.content,
                                    !.updated_at = now]
                     ELSE e : e \in lens.emo_current }
        history == InsertHistory(lens.emo_history, HistoryRow(w, b, payload, "", payload.content, "", now))
    IN  HandleEmoLinks([lens EXCEPT !.emo_current = current, !.emo_history = history], w, b, payload, now)

\* _handle_emo_linked
HandleEmoLinked(lens, w, b, payload, now) == HandleEmoLinks(lens, w, b, payload, now)

\* _handle_emo_deleted: the soft delete, then the history row of the deletion:
\* ON CONFLICT (idempotency_key) DO NOTHING, and any other failure of the
\* insert is caught and logged.
HandleEmoDeleted(lens, w, b, payload, now) ==
    LET current == { IF IsEmo(e, w, b, payload.emo_id)
                     THEN [e EXCEPT !.deleted = TRUE, !.deleted_at = now,
                                    !.deletion_reason = payload.deletion_reason, !.updated_at = now]
                     ELSE e : e \in lens.emo_current }
        key_conflict == /\ payload.idempotency_key # ""
                        /\ \E h \in lens.emo_history : h.idempotency_key = payload.idempotency_key
        history == IF key_conflict THEN lens.emo_history
                   ELSE InsertHistory(lens.emo_history,
                            HistoryRow(w, b, payload, "deleted", "", payload.idempotency_key, None))
    IN  [lens EXCEPT !.emo_current = current, !.emo_history = history]

\* RelationalProjector.apply: dispatch on the event's kind; an unknown kind is
\* logged and changes nothing.
RelationalApply(lens, envelope, now) ==
    LET kind == envelope.kind
        payload == envelope.payload
        w == envelope.world_id
        b == envelope.branch
    IN  CASE kind = "note.created" -> HandleNoteCreated(lens, w, b, payload, now)
          [] kind = "note.updated" -> HandleNoteUpdated(lens, w, b, payload, now)
          [] kind = "note.deleted" -> HandleNoteDeleted(lens, w, b, payload, now)
          [] kind = "tag.added" -> HandleTagAdded(lens, w, b, payload, now)
          [] kind = "tag.removed" -> HandleTagRemoved(lens, w, b, payload)
          [] kind = "link.added" -> HandleLinkAdded(lens, w, b, payload, now)
          [] kind = "link.removed" -> HandleLinkRemoved(lens, w, b, payload)
          [] kind = "emo.created" -> HandleEmoCreated(lens, w, b, payload, now)
          [] kind = "emo.updated" -> HandleEmoUpdated(lens, w, b, payload, now)
          [] kind = "emo.linked" -> HandleEmoLinked(lens, w, b, payload, now)
          [] kind = "emo.deleted" -> HandleEmoDeleted(lens, w, b, payload, now)
          [] OTHER -> lens

Envelope(kind, w, b, payload) == [kind |-> kind, world_id |-> w, branch |-> b, payload |-> payload]

\* The events of one stream that the projector is made to apply: each kind
\* apply knows, with and without the optional timestamp where it matters, and
\* a kind it does not know. body and link_type carry their defaults.
StreamEvents(w, b) ==
    << Envelope("note.created", w, b, [id |-> "n1", title |-> "t1", body |-> "", created_at |-> None]),
       Envelope("note.updated", w, b, [id |-> "n1", title |-> "t2", body |-> "", updated_at |-> None]),
       Envelope("note.updated", w, b, [id |-> "n1", title |-> "t2", body |-> "", updated_at |-> 0]),
       Envelope("note.deleted", w, b, [id |-> "n1"]),
       Envelope("tag.added", w, b, [id |-> "n1", tag |-> "g", applied_at |-> None]),
       Envelope("tag.removed", w, b, [id |-> "n1", tag |-> "g"]),
       Envelope("link.added", w, b, [src |-> "n1", dst |-> "n2", link_type |-> "default", created_at |-> None]),
       Envelope("link.removed", w, b, [src |-> "n1", dst |-> "n2", link_type |-> "default"]),
       Envelope("emo.created", w, b, [emo_id |-> "e1", emo_type |-> "note", emo_version |-> 1, content |-> "c1",
                                      parents |-> <<>>, links |-> <<>>]),
       Envelope("emo.updated", w, b, [emo_id |-> "e1", emo_version |-> 2, content |-> "c2",
                                      parents |-> <<[rel |-> "derived", emo_id |-> "e0"]>>,
                                      links |-> <<[kind |-> "uri", ref |-> "u"]>>]),
       Envelope("emo.linked", w, b, [emo_id |-> "e1", emo_version |-> 3, parents |-> <<>>,
                                     links |-> <<[kind |-> "emo", ref |-> "e0"], [kind |-> "file", ref |-> "f"]>>]),
       Envelope("emo.deleted", w, b, [emo_id |-> "e1", emo_version |-> 2, deletion_reason |-> "r",
                                      idempotency_key |-> ""]),
       Envelope("memory.created", w, b, [id |-> "m1"]),
       Envelope("emo.updated", w, b, [emo_id |-> "e1", emo_version |-> 1, content |-> "c0",
                                      parents |-> <<>>, links |-> <<>>]),
       Envelope("emo.deleted", w, b, [emo_id |-> "e1", emo_version |-> 3, deletion_reason |-> "r",
                                      idempotency_key |-> "e1:3:deleted"]) >>

\* A second tenant's events, on the same ids.
OtherStreamEvents(w, b) ==
    << Envelope("note.created", w, b, [id |-> "n1", title |-> "t1", body |-> "", created_at |-> None]),
       Envelope("note.deleted", w, b, [id |-> "n1"]),
       Envelope("emo.created", w, b, [emo_id |-> "e1", emo_type |-> "note", emo_version |-> 1, content |-> "c1",
                                      parents |-> <<>>, links |-> <<>>]) >>

ApplyEvents == StreamEvents("wA", "main") \o OtherStreamEvents("wB", "main")

\* Variant: the watermark is set whether apply raised or not.
WatermarkAfterAlways(old, global_seq, apply_error) == SetWatermark(old, global_seq)

\* receive_event: set_watermark follows apply inside one try, so an apply that
\* raises leaves the watermark as it was.
WatermarkAfter(old, global_seq, apply_error) == IF apply_error THEN old ELSE SetWatermark(old, global_seq)

\* receive_event calls apply(envelope, global_seq) and then set_watermark: the
\* projector applies event i, whose global_seq is its place i in the log
\* ApplyEvents, at the database's current time. applied records the application: which
\* event, the lens before it, whether the event is the one applied just
\* before (a redelivery), the events applied so far, in order, the event
\* received last and the status it was answered with.
ApplyEvent(i) ==
    /\ applied.count < MaxApplies
    /\ rel_lens' = RelationalApply(rel_lens, ApplyEvents[i], clock)
    /\ applied' = [count |-> applied.count + 1, event |-> i, before |-> rel_lens,
                   dup |-> applied.count > 0 /\ applied.event = i,
                   trace |-> Append(applied.trace, i),
                   received |-> i, reply |-> 200, raised |-> 0]
    /\ watermark' = [watermark EXCEPT !["projector_rel"][<<ApplyEvents[i].world_id, ApplyEvents[i].branch>>] =
                         WatermarkAfter(@, i, FALSE)]
    /\ UNCHANGED <<clock, store_vars, gateway_vars, batch, tasks, dlq, recv, delivery, tenant_vars, translator_vars, concurrent_vars>>

\* receive_event, `except Exception`: whatever was raised inside the try, the
\* HTTPException of the hash check included, is answered with status 500.
ExceptReply(raised_status) == 500

\* receive_event when apply (or a step before it) raises, before a statement
\* of the handler took effect: the except branch answers 500.
ApplyEventFails(i) ==
    /\ applied.count < MaxApplies
    /\ applied' = [applied EXCEPT !.count = @ + 1, !.received = i, !.reply = ExceptReply(500), !.raised = 500]
    /\ watermark' = [watermark EXCEPT !["projector_rel"][<<ApplyEvents[i].world_id, ApplyEvents[i].branch>>] =
                         WatermarkAfter(@, i, TRUE)]
    /\ UNCHANGED <<rel_lens, clock, store_vars, gateway_vars, batch, tasks, dlq, recv, delivery, tenant_vars,
                   translator_vars, concurrent_vars>>

\* receive_event for an event whose payload_hash is not the hash recomputed
\* from its envelope: HTTPException(400) is raised inside the try, before the
\* tenancy call, apply and set_watermark.
ReceiveEventHashMismatch(i) ==
    /\ applied.count < MaxApplies
    /\ applied' = [applied EXCEPT !.count = @ + 1, !.received = i, !.reply = ExceptReply(400), !.raised = 400]
    /\ watermark' = [watermark EXCEPT !["projector_rel"][<<ApplyEvents[i].world_id, ApplyEvents[i].branch>>] =
                         WatermarkAfter(@, i, TRUE)]
    /\ UNCHANGED <<rel_lens, clock, store_vars, gateway_vars, batch, tasks, dlq, recv, delivery, tenant_vars,
                   translator_vars, concurrent_vars>>

\* The lenses a rebuild can be asked for that have a projector in this model.
RebuildLenses == {"rel", "graph"}

\* f"projector_{lens}"
ProjectorName(lens) == IF lens = "rel" THEN "projector_rel" ELSE "projector_graph"

\* _execute_projector_rebuild: with clear_existing the projector's watermark
\* row of the stream is deleted (get_watermark then reads 0); the lens rows are
\* left as they are and no event is projected again.
ExecuteProjectorRebuild(lens, w, b, clear_existing) ==
    /\ watermark' = IF clear_existing
                    THEN [watermark EXCEPT ![ProjectorName(lens)][<<w, b>>] = 0]
                    ELSE watermark
    /\ UNCHANGED <<projector_vars, store_vars, gateway_vars, batch, tasks, dlq, recv, delivery, tenant_vars, translator_vars, concurrent_vars>>

\* The database clock advances.
ClockTick ==
    /\ clock < MaxClock
    /\ clock' = clock + 1
    /\ UNCHANGED <<rel_lens, applied, store_vars, gateway_vars, publisher_vars, tenant_vars, translator_vars, concurrent_vars>>

(***************************************************************************)
(* Tenancy: sessions, world context and row-level security (TenantSpec)    *)
(***************************************************************************)
\* app.world_id of a session in which no world context is set.
NoContext == ""

\* The tables a session reads in this model.
TenantTables == {"event_log", "note", "emo_current"}

TableRows(name) ==
    CASE name = "event_log" -> event_log
      [] name = "note" -> rel_lens.note
      [] name = "emo_current" -> rel_lens.emo_current

\* The row-level security policy of the log and of the lens tables: a row is
\* visible to a session, for reading and for writing, when the session's world
\* context is set and is the row's world_id.
RowVisibleAlways(row, context) == TRUE

RowVisibleUnlessOther(row, context) == context = NoContext \/ row.world_id = context

RowVisible(row, context) == context # NoContext /\ row.world_id = context

NoQuery == [kind |-> "none", table |-> "", context |-> NoContext, rows |-> {}, hidden |-> {}, after |-> {}, affected |-> 0]

\* Events the projector applies in a run of the tenancy model.
MaxTenantApplies == 2

\* The events that write rows of the tables the sessions read: notes and EMOs
\* of both worlds.
TenantEvents == {1, 3, 9, 16, 18}

\* The projector writes the lens rows the sessions read.
TenantApply(i) ==
    /\ applied.count < MaxTenantApplies
    /\ i \in TenantEvents
    /\ ApplyEvent(i)

\* TenancyManager.set_world_context: set_config('app.world_id', world_id, false)
SetWorldContext(w) ==
    /\ session' = w
    /\ UNCHANGED <<query, store_vars, gateway_vars, publisher_vars, projector_vars, translator_vars, concurrent_vars>>

\* TenancyManager.clear_world_context: set_config('app.world_id', '', false)
ClearWorldContext ==
    /\ session' = NoContext
    /\ UNCHANGED <<query, store_vars, gateway_vars, publisher_vars, projector_vars, translator_vars, concurrent_vars>>

\* A SELECT without a world_id condition on one of the tables: the rows the
\* policy lets the session see. query records the statement: its context, the
\* rows returned, and the rows of the table that were not returned.
SelectRows(name) ==
    /\ query' = [kind |-> "select", table |-> name, context |-> session,
                 rows |-> { r \in TableRows(name) : RowVisible(r, session) },
                 hidden |-> { r \in TableRows(name) : ~RowVisible(r, session) },
                 after |-> TableRows(name), affected |-> 0]
    /\ UNCHANGED <<session, store_vars, gateway_vars, publisher_vars, projector_vars, translator_vars, concurrent_vars>>

\* UPDATE lens_rel.note SET title = $2 WHERE note_id = $1, without a world_id
\* condition: the rows with this note_id that the policy lets the session see
\* are updated. query records the rows updated, the rows with this note_id
\* that were not, the table afterwards and the number of rows affected.
UpdateNote(note_id, title) ==
    LET matched == { n \in rel_lens.note : n.note_id = note_id }
        visible == { n \in matched : RowVisible(n, session) }
        note == { IF n \in visible THEN [n EXCEPT !.title = title] ELSE n : n \in rel_lens.note }
    IN  /\ rel_lens' = [rel_lens EXCEPT !.note = note]
        /\ query' = [kind |-> "update", table |-> "note", context |-> session,
                     rows |-> visible, hidden |-> matched \ visible,
                     after |-> note, affected |-> Cardinality(visible)]
        /\ UNCHANGED <<session, clock, applied, store_vars, gateway_vars, publisher_vars, translator_vars, concurrent_vars>>

(***************************************************************************)
(* Translator: memory.* events to emo.* events                             *)
(* (projectors/translator_memory_to_emo/translator_memory_to_emo.py)       *)
(***************************************************************************)
\* memory.item.upserted events the translator receives in one run.
MaxUpserts == 3

\* Restarts of the translator's process in one run.
MaxRestarts == 1

MemoryIds == {"m1"}

\* The stream the memory events belong to.
TranslatorWorld == "wA"
TranslatorBranch == "main"

\* _derive_emo_id: uuid5 of "memory:" + memory_id in a fixed namespace, a
\* function of the memory id alone.
DeriveEmoId(memory_id) == <<"uuid5", "memory:", memory_id>>

\* cache_key = f"{emo_id}:{world_id}:{branch}"
CacheKey(emo_id, w, b) == <<emo_id, w, b>>

\* SELECT emo_version FROM lens_emo.emo_current WHERE emo_id = $1 AND
\* world_id = $2 AND branch = $3 AND NOT deleted; version = result or 0
SelectEmoVersion(lens, emo_id, w, b) ==
    LET found == { e \in lens.emo_current : IsEmo(e, w, b, emo_id) /\ ~e.deleted }
    IN  IF found = {} THEN 0 ELSE (CHOOSE e \in found : TRUE).emo_version

\* new_version = 1 if is_new_emo else current_version + 1
NewVersion(current_version) == IF current_version = 0 THEN 1 ELSE current_version + 1

\* The envelope _translate_memory_upserted builds; the memory event carries
\* no parents and no links.
EmoEnvelope(memory_id, current_version, w, b) ==
    Envelope(IF current_version = 0 THEN "emo.created" ELSE "emo.updated", w, b,
             [emo_id |-> DeriveEmoId(memory_id), emo_type |-> "note",
              emo_version |-> NewVersion(current_version), content |-> "c1",
              parents |-> <<>>, links |-> <<>>])

InFlight(t) == translations[t].pc # "done"

\* The publisher posts a memory.item.upserted event: receive_event calls
\* apply, which acquires a connection and enters _translate_memory_upserted.
ReceiveUpserted(memory_id) ==
    /\ Len(translations) < MaxUpserts
    /\ translations' = Append(translations, [memory_id |-> memory_id, pc |-> "lookup", current_version |-> 0,
                                            written |-> FALSE, reply |-> 0, redelivery_of |-> 0])
    /\ translator_run' = [translator_run EXCEPT
                              !.overlapped = @ \/ \E t \in 1..Len(translations) : InFlight(t)]
    /\ UNCHANGED <<emo_versions, emitted, store_vars, gateway_vars, publisher_vars, projector_vars, tenant_vars, concurrent_vars>>

\* The publisher posts the memory.item.upserted event of the reception t once
\* more (a retry of the event's delivery): receive_event and apply treat it as
\* they treat every event; nothing compares its global_seq with the watermark.
RedeliverUpserted(t) ==
    /\ Len(translations) < MaxUpserts
    /\ t \in 1..Len(translations)
    /\ translations[t].redelivery_of = 0
    /\ translations' = Append(translations, [memory_id |-> translations[t].memory_id, pc |-> "lookup",
                                            current_version |-> 0, written |-> FALSE, reply |-> 0,
                                            redelivery_of |-> t])
    /\ translator_run' = [translator_run EXCEPT
                              !.overlapped = @ \/ \E u \in 1..Len(translations) : InFlight(u)]
    /\ UNCHANGED <<emo_versions, emitted, store_vars, gateway_vars, publisher_vars, projector_vars, tenant_vars, concurrent_vars>>

\* _get_emo_current_version, up to its await: a cached version is returned at
\* once, otherwise the handler awaits the query.
GetEmoCurrentVersion(t) ==
    LET key == CacheKey(DeriveEmoId(translations[t].memory_id), TranslatorWorld, TranslatorBranch)
    IN  /\ translations[t].pc = "lookup"
        /\ translations' = [translations EXCEPT ![t] =
               IF key \in DOMAIN emo_versions
               THEN [@ EXCEPT !.pc = "emit", !.current_version = emo_versions[key]]
               ELSE [@ EXCEPT !.pc = "query"]]
        /\ UNCHANGED <<emo_versions, emitted, translator_run, store_vars, gateway_vars, publisher_vars,
                       projector_vars, tenant_vars, concurrent_vars>>

\* _get_emo_current_version, from its await: the version the relational lens
\* holds is cached and returned; a failed query returns 0 and caches nothing.
QueryEmoVersion(t, db_error) ==
    LET emo_id == DeriveEmoId(translations[t].memory_id)
        key == CacheKey(emo_id, TranslatorWorld, TranslatorBranch)
        version == SelectEmoVersion(rel_lens, emo_id, TranslatorWorld, TranslatorBranch)
    IN  /\ translations[t].pc = "query"
        /\ IF db_error
           THEN /\ translations' = [translations EXCEPT ![t] = [@ EXCEPT !.pc = "emit", !.current_version = 0]]
                /\ UNCHANGED emo_versions
           ELSE /\ translations' = [translations EXCEPT ![t] = [@ EXCEPT !.pc = "emit", !.current_version = version]]
                /\ emo_versions' = [k \in DOMAIN emo_versions \cup {key} |->
                                       IF k = key THEN version ELSE emo_versions[k]]
        /\ UNCHANGED <<emitted, translator_run, store_vars, gateway_vars, publisher_vars,
                       projector_vars, tenant_vars, concurrent_vars>>

\* event_id = str(uuid.uuid4()): the k-th identifier the translator generates.
Uuid4(k) == <<"uuid4", k>>

\* _emit_emo_event: INSERT INTO event_core.event_log (...), the row taking its
\* global_seq from the generator; no outbox row is written. A failed insert
\* is raised, and apply catches it, logs it and returns normally.
EmitEmoEvent(t, db_error) ==
    /\ translations[t].pc = "emit"
    /\ IF db_error
       THEN /\ translations' = [translations EXCEPT ![t] = [@ EXCEPT !.pc = "applied"]]
            /\ UNCHANGED <<emitted, event_log, seq_gen>>
       ELSE /\ translations' = [translations EXCEPT ![t] = [@ EXCEPT !.pc = "cache", !.written = TRUE]]
            /\ emitted' = Append(emitted, EmoEnvelope(translations[t].memory_id, translations[t].current_version,
                                                      TranslatorWorld, TranslatorBranch))
            /\ seq_gen' = NextVal(seq_gen)
            /\ event_log' = event_log \cup {LogRow(NextVal(seq_gen), Uuid4(Len(emitted) + 1),
                                                    TranslatorWorld, TranslatorBranch, Null)}
    /\ UNCHANGED <<outbox, emo_versions, translator_run, gateway_vars, publisher_vars,
                   projector_vars, tenant_vars, concurrent_vars>>

\* _translate_memory_upserted, after the insert: self._emo_versions[cache_key] = new_version
CacheNewVersion(t) ==
    LET key == CacheKey(DeriveEmoId(translations[t].memory_id), TranslatorWorld, TranslatorBranch)
    IN  /\ translations[t].pc = "cache"
        /\ emo_versions' = [k \in DOMAIN emo_versions \cup {key} |->
                               IF k = key THEN NewVersion(translations[t].current_version)
                               ELSE emo_versions[k]]
        /\ translations' = [translations EXCEPT ![t] = [@ EXCEPT !.pc = "applied"]]
        /\ UNCHANGED <<emitted, translator_run, store_vars, gateway_vars, publisher_vars,
                       projector_vars, tenant_vars, concurrent_vars>>

\* receive_event, after apply has returned: set_watermark with the event's
\* global_seq (its place t among the events received), and the answer 200.
AcknowledgeEvent(t) ==
    /\ translations[t].pc = "applied"
    /\ translations' = [translations EXCEPT ![t] = [@ EXCEPT !.pc = "done", !.reply = 200]]
    /\ translator_run' = [translator_run EXCEPT !.watermark = WatermarkAfter(@, t, FALSE)]
    /\ UNCHANGED <<emo_versions, emitted, store_vars, gateway_vars, publisher_vars, projector_vars, tenant_vars, concurrent_vars>>

\* The translator's process stops and starts again: __init__ sets
\* self._emo_versions = {}, and the handlers that were running are gone.
RestartTranslator ==
    /\ translator_run.restarts < MaxRestarts
    /\ emo_versions' = << >>
    /\ translations' = [t \in 1..Len(translations) |-> [translations[t] EXCEPT !.pc = "done"]]
    /\ translator_run' = [translator_run EXCEPT !.restarts = @ + 1]
    /\ UNCHANGED <<emitted, store_vars, gateway_vars, publisher_vars, projector_vars, tenant_vars, concurrent_vars>>

\* The relational projector applies the next emitted event to its lens.
ProjectEmitted ==
    /\ translator_run.projected < Len(emitted)
    /\ rel_lens' = RelationalApply(rel_lens, emitted[translator_run.projected + 1], clock)
    /\ translator_run' = [translator_run EXCEPT !.projected = @ + 1]
    /\ UNCHANGED <<clock, applied, emo_versions, emitted, translations, store_vars, gateway_vars,
                   publisher_vars, tenant_vars, concurrent_vars>>

(***************************************************************************)
(* Publisher workers: two publisher processes on one outbox, and their     *)
(* shutdown (services/publisher/main.py)                                   *)
(***************************************************************************)
\* The publisher processes that poll the outbox.
Workers == {"p1", "p2"}

\* Failed attempts per row in a run of the workers' model.
MaxFailedAttempts == 2

\* A worker at the top of _poll_outbox's loop.
IdleWorker == [pc |-> "poll", batch |-> <<>>, results |-> <<>>, locked |-> {}, committed |-> {}]

\* get_unpublished_batch(n), with the row-level locks of the design: the rows
\* that are unpublished, due and not locked by another transaction.
GetUnpublishedBatchSkipLocked(ob, locked, n) ==
    FirstN(Ascending({ s \in DOMAIN ob : ~ob[s].published /\ ob[s].retry_wait = 0 /\ s \notin locked }), n)

\* The rows locked by the open transactions of the other workers.
LockedByOthers(w) == UNION { workers[v].locked : v \in Workers \ {w} }

\* _fetch_unpublished_batch, the statement: conn.fetch runs the SELECT on a
\* pool connection outside any transaction block; the rows it returns are
\* locked while the statement runs.
WorkerFetch(w) ==
    /\ workers[w].pc = "poll"
    /\ LET fetched == GetUnpublishedBatchSkipLocked(outbox, LockedByOthers(w), BatchSize)
       IN  /\ fetched # <<>>
           /\ workers' = [workers EXCEPT ![w] = [pc |-> "fetch", batch |-> fetched, results |-> <<>>,
                                                  locked |-> { fetched[t] : t \in 1..Len(fetched) },
                                                  committed |-> {}]]
    /\ UNCHANGED <<store_vars, gateway_vars, publisher_vars, projector_vars, tenant_vars, translator_vars,
                   receptions, pool>>

\* _fetch_unpublished_batch returns: the statement's implicit transaction has
\* ended and the connection is back in the pool, so that its locks are gone;
\* _process_batch creates one delivery task per event.
WorkerProcessBatch(w) ==
    /\ workers[w].pc = "fetch"
    /\ workers' = [workers EXCEPT ![w] = [@ EXCEPT !.pc = "deliver", !.locked = {},
                                                   !.results = [t \in 1..Len(workers[w].batch) |-> "pending"]]]
    /\ UNCHANGED <<store_vars, gateway_vars, publisher_vars, projector_vars, tenant_vars, translator_vars,
                   receptions, pool>>

\* The task _publish_event of the batch's event t finishes, with True or False.
WorkerPublishEvent(w, t, result) ==
    /\ workers[w].pc = "deliver"
    /\ t \in 1..Len(workers[w].batch)
    /\ workers[w].results[t] = "pending"
    /\ result = "True" \/ outbox[workers[w].batch[t]].attempts < MaxFailedAttempts
    /\ workers' = [workers EXCEPT ![w].results[t] = result]
    /\ UNCHANGED <<store_vars, gateway_vars, publisher_vars, projector_vars, tenant_vars, translator_vars,
                   receptions, pool>>

\* asyncio.gather has returned: _update_publish_status begins.
WorkerGathered(w) ==
    /\ workers[w].pc = "deliver"
    /\ \A t \in 1..Len(workers[w].batch) : workers[w].results[t] # "pending"
    /\ workers' = [workers EXCEPT ![w].pc = "commit"]
    /\ UNCHANGED <<store_vars, gateway_vars, publisher_vars, projector_vars, tenant_vars, translator_vars,
                   receptions, pool>>

\* One turn of _update_publish_status' loop: the status of the next event of
\* the batch is committed; after the last one the worker polls again.
WorkerUpdatePublishStatus(w) ==
    /\ workers[w].pc = "commit"
    /\ LET t == Cardinality(workers[w].committed) + 1
           s == workers[w].batch[t]
           upd == UpdateRow(outbox[s], workers[w].results[t] = "True")
       IN  /\ outbox' = [outbox EXCEPT ![s] = upd.row]
           /\ dlq' = IF upd.dlq THEN dlq \cup {s} ELSE dlq
           /\ workers' = [workers EXCEPT ![w] =
                  IF t = Len(@.batch) THEN IdleWorker ELSE [@ EXCEPT !.committed = @ \cup {t}]]
    /\ UNCHANGED <<event_log, seq_gen, gateway_vars, batch, tasks, watermark, recv, delivery, projector_vars,
                   tenant_vars, translator_vars, receptions, pool>>

\* Shutdown: asyncio.run cancels main's task, and with it start's gather and
\* _poll_outbox at the await it is suspended in. CancelledError is not an
\* Exception, so that no handler of the publisher catches it: the batch's
\* tasks are cancelled and what _process_batch had left to do is not done.
WorkerShutdown(w) ==
    /\ workers[w].pc # "stopped"
    /\ workers' = [workers EXCEPT ![w] = [@ EXCEPT !.pc = "stopped", !.locked = {},
                      !.results = [t \in DOMAIN @ |-> IF @[t] = "pending" THEN "cancelled" ELSE @[t]]]]
    /\ UNCHANGED <<store_vars, gateway_vars, publisher_vars, projector_vars, tenant_vars, translator_vars,
                   receptions, pool>>

\* The next run of a publisher that was shut down.
WorkerStart(w) ==
    /\ workers[w].pc = "stopped"
    /\ workers' = [workers EXCEPT ![w] = IdleWorker]
    /\ UNCHANGED <<store_vars, gateway_vars, publisher_vars, projector_vars, tenant_vars, translator_vars,
                   receptions, pool>>

(***************************************************************************)
(* A projector's concurrent receptions and its connection pool             *)
(* (projectors/sdk/projector.py, services/common/tenancy.py)               *)
(***************************************************************************)
\* The connections of the projector's pool.
Connections == {"c1", "c2"}

FreeConnection == [context |-> NoContext, holder |-> 0]

\* Receptions in a run of the concurrent model.
MaxReceptions == 2

\* The stream of the event i of the log ApplyEvents.
EventStream(i) == <<ApplyEvents[i].world_id, ApplyEvents[i].branch>>

\* Pool.release: whether the pool resets the session's settings when a
\* connection goes back to it is the driver's affair; both are modelled.
Released(conn, reset) == [context |-> IF reset THEN NoContext ELSE conn.context, holder |-> 0]

\* receive_event is entered for event i (its hash, if supplied, verified):
\* FastAPI runs each request as a task of its own.
ReceiveEvent(i) ==
    /\ Len(receptions) < MaxReceptions
    /\ \A r \in 1..Len(receptions) : receptions[r].event # i
    /\ receptions' = Append(receptions, [event |-> i, pc |-> "context", conn |-> "", apply_context |-> NoContext,
                                         overlapped |-> FALSE, reply |-> 0])
    /\ UNCHANGED <<store_vars, gateway_vars, publisher_vars, projector_vars, tenant_vars, translator_vars,
                   workers, pool>>

\* receive_event: `async with self.db_pool.acquire() as conn: await
\* TenancyManager.set_world_context(conn, world_id)`: the context is set on a
\* connection that goes back to the pool at once.
ReceptionSetWorldContext(r, c, reset) ==
    /\ receptions[r].pc = "context"
    /\ pool[c].holder = 0
    /\ pool' = [pool EXCEPT ![c] = Released([context |-> ApplyEvents[receptions[r].event].world_id, holder |-> r],
                                            reset)]
    /\ receptions' = [receptions EXCEPT ![r].pc = "apply"]
    /\ UNCHANGED <<store_vars, gateway_vars, publisher_vars, projector_vars, tenant_vars, translator_vars,
                   workers>>

\* receive_event: a step before apply raises; the except branch answers 500.
ReceptionFails(r) ==
    /\ receptions[r].pc = "context"
    /\ receptions' = [receptions EXCEPT ![r] = [@ EXCEPT !.pc = "done", !.reply = ExceptReply(500)]]
    /\ UNCHANGED <<store_vars, gateway_vars, publisher_vars, projector_vars, tenant_vars, translator_vars,
                   workers, pool>>

\* The receptions of r's stream that are between the start of their apply and
\* the end of their set_watermark.
InApplyAndWatermark(r) ==
    { q \in 1..Len(receptions) :
          /\ q # r
          /\ EventStream(receptions[q].event) = EventStream(receptions[r].event)
          /\ receptions[q].pc \in {"applying", "watermark"} }

\* RelationalProjector.apply, `async with self.db_pool.acquire() as conn`: the
\* handler's statements run on the connection the pool hands out, under the
\* context that connection has.
ReceptionApplyBegin(r, c) ==
    /\ receptions[r].pc = "apply"
    /\ pool[c].holder = 0
    /\ pool' = [pool EXCEPT ![c].holder = r]
    /\ receptions' = [receptions EXCEPT ![r] = [@ EXCEPT !.pc = "applying", !.conn = c,
                                                         !.apply_context = pool[c].context,
                                                         !.overlapped = InApplyAndWatermark(r) # {}]]
    /\ UNCHANGED <<store_vars, gateway_vars, publisher_vars, projector_vars, tenant_vars, translator_vars,
                   workers>>

\* apply returns: the handler's statements have taken effect and the
\* connection is released.
ReceptionApplyEnd(r, reset) ==
    /\ receptions[r].pc = "applying"
    /\ rel_lens' = RelationalApply(rel_lens, ApplyEvents[receptions[r].event], clock)
    /\ pool' = [pool EXCEPT ![receptions[r].conn] = Released(@, reset)]
    /\ receptions' = [receptions EXCEPT ![r] = [@ EXCEPT !.pc = "watermark", !.conn = ""]]
    /\ UNCHANGED <<clock, applied, store_vars, gateway_vars, publisher_vars, tenant_vars, translator_vars,
                   workers>>

\* receive_event: set_watermark, then the response.
ReceptionSetWatermark(r) ==
    /\ receptions[r].pc = "watermark"
    /\ watermark' = [watermark EXCEPT !["projector_rel"][EventStream(receptions[r].event)] =
                         WatermarkAfter(@, receptions[r].event, FALSE)]
    /\ receptions' = [receptions EXCEPT ![r] = [@ EXCEPT !.pc = "done", !.reply = 200]]
    /\ UNCHANGED <<batch, tasks, dlq, recv, delivery, store_vars, gateway_vars, projector_vars, tenant_vars,
                   translator_vars, workers, pool>>

(***************************************************************************)
(* Specifications                                                          *)
(***************************************************************************)
Init ==
    /\ event_log = {}
    /\ outbox = <<>>
    /\ seq_gen = 0
    /\ requests = <<>>
    /\ assigned = <<>>
    /\ batch = <<>>
    /\ tasks = <<>>
    /\ dlq = {}
    /\ watermark = [p \in Projectors |-> [st \in Streams |-> 0]]
    /\ recv = [p \in Projectors |-> [st \in Streams |-> [last |-> 0, max |-> 0]]]
    /\ delivery = [s \in 1..MaxEvents |-> [acked |-> {}, mark_published |-> 0, failures |-> 0]]
    /\ rel_lens = EmptyLens
    /\ clock = 0
    /\ applied = [count |-> 0, event |-> 0, before |-> EmptyLens, dup |-> FALSE, trace |-> <<>>,
                  received |-> 0, reply |-> 0, raised |-> 0]
    /\ session = NoContext
    /\ query = NoQuery
    /\ emo_versions = << >>
    /\ emitted = << >>
    /\ translations = << >>
    /\ translator_run = [restarts |-> 0, overlapped |-> FALSE, projected |-> 0, watermark |-> 0]
    /\ workers = [w \in Workers |-> IdleWorker]
    /\ receptions = << >>
    /\ pool = [c \in Connections |-> FreeConnection]

Next ==
    \/ \E env \in Envelopes, h \in Headers : CreateEvent(env, h)
    \/ \E i \in 1..Len(requests) : StoreEventCheck(i)
    \/ \E i \in 1..Len(requests), db_error \in BOOLEAN : StoreEventInsert(i, db_error)
    \/ \E i \in 1..Len(requests), db_error \in BOOLEAN : StoreEventCommit(i, db_error)

Spec == Init /\ [][Next]_vars

PubNext ==
    \/ \E w \in Worlds, b \in Branches : AppendEvent(w, b)
    \/ FetchBatch
    \/ \E t \in 1..Len(batch), outcome \in Outcomes : SendToProjector(t, outcome)
    \/ UpdatePublishStatus
    \/ Tick

PubSpec == Init /\ [][PubNext]_vars

ApplyNext ==
    \/ \E i \in 1..Len(ApplyEvents) : ApplyEvent(i)
    \/ \E lens \in RebuildLenses, w \in Worlds, b \in Branches, clear_existing \in BOOLEAN :
           ExecuteProjectorRebuild(lens, w, b, clear_existing)
    \/ ClockTick

ApplySpec == Init /\ [][ApplyNext]_vars

\* The events of the reception model: notes and an EMO, of both streams.
ReceivedEvents == {1, 2, 9, 16}

ReceiveNext ==
    \/ \E i \in ReceivedEvents : ApplyEvent(i)
    \/ \E i \in ReceivedEvents : ApplyEventFails(i)
    \/ \E i \in ReceivedEvents : ReceiveEventHashMismatch(i)
    \/ \E w \in Worlds, b \in Branches : ExecuteProjectorRebuild("rel", w, b, TRUE)
    \/ ClockTick

ReceiveSpec == Init /\ [][ReceiveNext]_vars

GatewayNext ==
    \/ \E env \in GatewayEnvelopes, h \in GatewayHeaders : GatewayCreateEvent(env, h)
    \/ \E i \in 1..Len(requests) : StoreEventCheck(i)
    \/ \E i \in 1..Len(requests), db_error \in BOOLEAN : StoreEventInsert(i, db_error)
    \/ \E i \in 1..Len(requests), db_error \in BOOLEAN : StoreEventCommit(i, db_error)
    \/ ClockTick

GatewaySpec == Init /\ [][GatewayNext]_vars

TenantNext ==
    \/ \E w \in Worlds, b \in Branches : AppendEvent(w, b)
    \/ \E i \in 1..Len(ApplyEvents) : TenantApply(i)
    \/ \E w \in Worlds : SetWorldContext(w)
    \/ ClearWorldContext
    \/ \E name \in TenantTables : SelectRows(name)
    \/ \E title \in {"hacked"} : UpdateNote("n1", title)

TenantSpec == Init /\ [][TenantNext]_vars

WorkersNext ==
    \/ \E w \in Worlds, b \in Branches : AppendEvent(w, b)
    \/ \E w \in Workers : WorkerFetch(w)
    \/ \E w \in Workers : WorkerProcessBatch(w)
    \/ \E w \in Workers, t \in 1..BatchSize, result \in {"True", "False"} : WorkerPublishEvent(w, t, result)
    \/ \E w \in Workers : WorkerGathered(w)
    \/ \E w \in Workers : WorkerUpdatePublishStatus(w)
    \/ \E w \in Workers : WorkerShutdown(w)
    \/ \E w \in Workers : WorkerStart(w)
    \/ Tick

WorkersSpec == Init /\ [][WorkersNext]_vars

\* The events of the concurrent receptions: two of one stream, one of another world.
ConcurrentEvents == {1, 2, 16}

ConcurrentNext ==
    \/ \E i \in ConcurrentEvents : ReceiveEvent(i)
    \/ \E r \in 1..Len(receptions), c \in Connections, reset \in BOOLEAN : ReceptionSetWorldContext(r, c, reset)
    \/ \E r \in 1..Len(receptions) : ReceptionFails(r)
    \/ \E r \in 1..Len(receptions), c \in Connections : ReceptionApplyBegin(r, c)
    \/ \E r \in 1..Len(receptions), reset \in BOOLEAN : ReceptionApplyEnd(r, reset)
    \/ \E r \in 1..Len(receptions) : ReceptionSetWatermark(r)

ConcurrentSpec == Init /\ [][ConcurrentNext]_vars

TranslatorNext ==
    \/ \E memory_id \in MemoryIds : ReceiveUpserted(memory_id)
    \/ \E t \in 1..Len(translations) : GetEmoCurrentVersion(t)
    \/ \E t \in 1..Len(translations), db_error \in BOOLEAN : QueryEmoVersion(t, db_error)
    \/ \E t \in 1..Len(translations), db_error \in BOOLEAN : EmitEmoEvent(t, db_error)
    \/ \E t \in 1..Len(translations) : CacheNewVersion(t)
    \/ \E t \in 1..Len(translations) : AcknowledgeEvent(t)
    \/ RestartTranslator
    \/ ProjectEmitted

TranslatorSpec == Init /\ [][TranslatorNext]_vars

\* The translator when the publisher delivers events more than once.
RedeliveryNext ==
    \/ \E memory_id \in MemoryIds : ReceiveUpserted(memory_id)
    \/ \E t \in 1..Len(translations) : RedeliverUpserted(t)
    \/ \E t \in 1..Len(translations) : GetEmoCurrentVersion(t)
    \/ \E t \in 1..Len(translations), db_error \in BOOLEAN : QueryEmoVersion(t, db_error)
    \/ \E t \in 1..Len(translations), db_error \in BOOLEAN : EmitEmoEvent(t, db_error)
    \/ \E t \in 1..Len(translations) : CacheNewVersion(t)
    \/ \E t \in 1..Len(translations) : AcknowledgeEvent(t)
    \/ ProjectEmitted

RedeliverySpec == Init /\ [][RedeliveryNext]_vars

\* The publisher keeps polling, its tasks and commits run, and time passes.
LiveSpec ==
    /\ Init
    /\ [][PubNext]_vars
    /\ WF_vars(FetchBatch)
    /\ WF_vars(\E t \in 1..Len(batch), outcome \in Outcomes : SendToProjector(t, outcome))
    /\ WF_vars(UpdatePublishStatus)
    /\ WF_vars(Tick)

(***************************************************************************)
(* Properties of the gateway's append path (checked under Spec)            *)
(***************************************************************************)
SameTuple(r1, r2) == r1.world_id = r2.world_id /\ r1.branch = r2.branch /\ r1.idempotency_key = r2.idempotency_key

Done(i) == requests[i].pc = "done"

Accepted(i) == Done(i) /\ requests[i].kind = "accepted"

\* C1: for every (world_id, branch, idempotency_key) with a supplied key the
\* event log holds at most one row, also when two appends with the same tuple
\* run concurrently.
C1_AtMostOneRowPerTuple ==
    \A r1 \in event_log, r2 \in event_log :
        (r1.idempotency_key # Null /\ SameTuple(r1, r2)) => r1 = r2

\* Two appends with the same tuple both passed the idempotency check (neither
\* saw the other's row); one was accepted, the other was stopped at the index.
C1_Witness ==
    \E i \in 1..Len(requests), j \in 1..Len(requests) :
        /\ i # j
        /\ requests[i].key # Null
        /\ requests[i].key = requests[j].key
        /\ requests[i].world_id = requests[j].world_id
        /\ requests[i].branch = requests[j].branch
        /\ requests[i].event_id # 0 /\ requests[j].event_id # 0
        /\ Accepted(i)
        /\ requests[j].prior = NoRow
        /\ Done(j) /\ requests[j].kind = "internal_error"

\* C2: an append that passes validation and carries the tuple of an event that
\* was already stored when it arrived is answered 409 idempotency_conflict, adds
\* no row to the log or the outbox, and the stored row of the tuple is still the
\* first event's, unchanged.
C2_DuplicateAnswered409 ==
    \A i \in 1..Len(requests) :
        (Done(i) /\ requests[i].prior # NoRow /\ requests[i].kind # "validation_error") =>
            /\ requests[i].kind = "idempotency_conflict"
            /\ requests[i].status = 409
            /\ requests[i].global_seq = 0
            /\ \A r \in event_log : r.event_id # i
            /\ \A s \in DOMAIN outbox : outbox[s].event_id # i
            /\ CheckIdempotency(event_log, requests[i].world_id, requests[i].branch, requests[i].key) = {requests[i].prior}

C2_Witness ==
    \E i \in 1..Len(requests) :
        /\ Done(i)
        /\ requests[i].prior # NoRow
        /\ requests[i].kind = "idempotency_conflict"
        /\ requests[i].prior \in event_log

NoAppendFailed == \A i \in 1..Len(requests) : requests[i].kind # "internal_error"

\* C4: the global_seq values handed to appended events strictly increase in
\* append order over the whole log, whatever the tenant, and as long as no
\* append has failed they are consecutive from 1, without gaps.
C4_GlobalSeqMonotonicNoGaps ==
    /\ \A a \in 1..Len(assigned), b \in 1..Len(assigned) : a < b => assigned[a] < assigned[b]
    /\ \A r \in event_log : \E a \in 1..Len(assigned) : assigned[a] = r.global_seq
    /\ NoAppendFailed => \A a \in 1..Len(assigned) : assigned[a] = a
    /\ (NoAppendFailed /\ \A i \in 1..Len(requests) : Done(i)) =>
           { r.global_seq : r \in event_log } = 1..Cardinality(event_log)

\* Events of two tenants share one sequence.
C4_Witness ==
    /\ NoAppendFailed
    /\ \A i \in 1..Len(requests) : Done(i)
    /\ \E r1 \in event_log, r2 \in event_log :
           r1.world_id # r2.world_id /\ r2.global_seq = r1.global_seq + 1

(***************************************************************************)
(* Properties of the publisher and of event reception (PubSpec, LiveSpec)  *)
(***************************************************************************)
InBatch(s) == \E t \in 1..Len(batch) : batch[t] = s

\* Published by an acknowledged delivery, not by the move to the DLQ.
PublishedByAck(s) == s \in DOMAIN outbox /\ outbox[s].published /\ s \notin dlq

\* C5: for every projector and stream the deliveries arrive in increasing
\* global_seq order: the latest delivery is never below an earlier one.
C5_DeliveriesInOrder ==
    \A p \in Projectors, st \in Streams : recv[p][st].last = recv[p][st].max

\* C6: for every projector and stream last_processed_seq never decreases.
C6_WatermarkNeverDecreases ==
    [][\A p \in Projectors, st \in Streams : watermark'[p][st] >= watermark[p][st]]_vars

\* C7: every appended event is eventually marked published, and then every
\* subscribed projector acknowledged it in that attempt, or is moved to the
\* dead-letter queue.
C7_EventuallyPublishedOrDlq ==
    /\ [](\A s \in DOMAIN outbox : PublishedByAck(s) => delivery[s].acked = Projectors)
    /\ \A s \in 1..MaxEvents :
           (s \in DOMAIN outbox) ~> (s \in dlq \/ (PublishedByAck(s) /\ delivery[s].acked = Projectors))

\* One event was published after every projector acknowledged it, another went
\* to the dead-letter queue.
C7_Witness ==
    \E s1 \in DOMAIN outbox, s2 \in DOMAIN outbox :
        /\ PublishedByAck(s1) /\ delivery[s1].acked = Projectors
        /\ s2 \in dlq

\* C8: an event goes to the dead-letter queue exactly when its MAX_RETRIES-th
\* attempt has failed, and a dead-lettered event is marked so that it is never
\* in a batch again: it is not fetched, delivered or counted once more.
C8_DlqAfterMaxRetries ==
    \A s \in DOMAIN outbox :
        /\ outbox[s].attempts <= MAX_RETRIES
        /\ s \in dlq <=> outbox[s].attempts = MAX_RETRIES
        /\ s \in dlq => (outbox[s].published /\ ~InBatch(s) /\ delivery[s].failures = MAX_RETRIES)
        /\ s \in dlq => \A t \in 1..Len(GetUnpublishedBatch(outbox, BatchSize)) : GetUnpublishedBatch(outbox, BatchSize)[t] # s

\* An event is in the dead-letter queue while the publisher works on a later batch.
C8_Witness ==
    \E s \in dlq : batch # <<>> /\ \E t \in 1..Len(batch) : tasks[t].next > 1

C10_ApplyIdempotent == applied.dup => rel_lens = applied.before

SameEmo(e1, e2) == e1.emo_id = e2.emo_id /\ e1.world_id = e2.world_id /\ e1.branch = e2.branch

\* C11: for every EMO identity the version in emo_current starts at 1 and no
\* application of an event lowers it.
C11_EmoVersionNeverLowered ==
    [][\A e2 \in rel_lens'.emo_current :
           /\ (\A e1 \in rel_lens.emo_current : ~SameEmo(e1, e2)) => e2.emo_version = 1
           /\ \A e1 \in rel_lens.emo_current : SameEmo(e1, e2) => e2.emo_version >= e1.emo_version]_vars

\* Event i of ApplyEvents is of the given kind and addresses the EMO of row e.
IsEmoEvent(i, kind, e) ==
    /\ ApplyEvents[i].kind = kind
    /\ ApplyEvents[i].world_id = e.world_id
    /\ ApplyEvents[i].branch = e.branch
    /\ ApplyEvents[i].payload.emo_id = e.emo_id

\* The positions of the trace at which an emo.updated for the EMO of row e was
\* applied after the EMO's emo.created.
UpdatesApplied(e) ==
    { k \in 1..Len(applied.trace) :
        /\ IsEmoEvent(applied.trace[k], "emo.updated", e)
        /\ \E j \in 1..(k - 1) : IsEmoEvent(applied.trace[j], "emo.created", e) }

\* C12: once emo.updated events of an EMO have been applied, in whatever
\* order, emo_current holds the content of one of those with the largest
\* emo_version.
C12_ContentOfLargestVersion ==
    \A e \in rel_lens.emo_current :
        UpdatesApplied(e) # {} =>
            \E k \in UpdatesApplied(e) :
                /\ \A j \in UpdatesApplied(e) :
                       ApplyEvents[applied.trace[j]].payload.emo_version <= ApplyEvents[applied.trace[k]].payload.emo_version
                /\ e.content = ApplyEvents[applied.trace[k]].payload.content

\* lens_emo.emo_active: the EMOs of emo_current that are not deleted.
EmoActive(lens) == { e \in lens.emo_current : ~e.deleted }

HistoryOf(lens, e) == { h \in lens.emo_history : SameEmo(h, e) }

\* The events applied are, in this order, the emo.created with version 1, an
\* emo.updated with version 2 and an emo.deleted with version 3 of the EMO of
\* row e.
CreatedUpdatedDeleted(e) ==
    /\ Len(applied.trace) = 3
    /\ IsEmoEvent(applied.trace[1], "emo.created", e) /\ ApplyEvents[applied.trace[1]].payload.emo_version = 1
    /\ IsEmoEvent(applied.trace[2], "emo.updated", e) /\ ApplyEvents[applied.trace[2]].payload.emo_version = 2
    /\ IsEmoEvent(applied.trace[3], "emo.deleted", e) /\ ApplyEvents[applied.trace[3]].payload.emo_version = 3

\* C13: after emo.created (v1), emo.updated (v2) and emo.deleted (v3) of one
\* EMO were applied in order, emo_current has it deleted at version 3,
\* emo_history has three rows for it, of the versions 1, 2 and 3, the last one
\* of operation deleted, and emo_active has no row for it.
C13_DeletedAtVersionThree ==
    \A e \in rel_lens.emo_current :
        CreatedUpdatedDeleted(e) =>
            /\ e.deleted
            /\ e.emo_version = 3
            /\ Cardinality(HistoryOf(rel_lens, e)) = 3
            /\ { h.emo_version : h \in HistoryOf(rel_lens, e) } = {1, 2, 3}
            /\ \A h \in HistoryOf(rel_lens, e) : h.emo_version = 3 => h.operation_type = "deleted"
            /\ \A a \in EmoActive(rel_lens) : ~SameEmo(a, e)

\* C14: every EMO of emo_active has deleted = false, and every EMO with an
\* emo_history row of operation deleted has deleted = true in emo_current.
C14_DeletedFlagConsistent ==
    /\ \A a \in EmoActive(rel_lens) : ~a.deleted
    /\ \A h \in rel_lens.emo_history : h.operation_type = "deleted" =>
           \A e \in rel_lens.emo_current : SameEmo(e, h) => e.deleted

\* RelationalProjector._get_state_snapshot: the columns it selects of the
\* stream's notes, tags, links and EMOs. Each list is ordered by the rows' key,
\* so that it is determined by the set of its rows.
GetStateSnapshot(lens, w, b) ==
    [lens |-> "relational", world_id |-> w, branch |-> b,
     notes |-> { [note_id |-> n.note_id, title |-> n.title, body |-> n.body,
                  created_at |-> n.created_at, updated_at |-> n.updated_at] :
                 n \in { r \in lens.note : InStream(r, w, b) } },
     tags |-> { [note_id |-> t.note_id, tag |-> t.tag, applied_at |-> t.applied_at] :
                t \in { r \in lens.note_tag : InStream(r, w, b) } },
     links |-> { [src_id |-> l.src_id, dst_id |-> l.dst_id, link_type |-> l.link_type,
                  created_at |-> l.created_at] :
                 l \in { r \in lens.link : InStream(r, w, b) } },
     emos |-> { [emo_id |-> e.emo_id, emo_type |-> e.emo_type, emo_version |-> e.emo_version,
                 updated_at |-> e.updated_at, deleted |-> e.deleted] :
                e \in { r \in lens.emo_current : InStream(r, w, b) } }]

\* ProjectorSDK.compute_state_hash: SHA-256 of the snapshot's canonical JSON.
ComputeStateHash(lens, w, b) == <<"sha256", GetStateSnapshot(lens, w, b)>>

\* The lens of a run that applies the events of trace from position k on to
\* lens, all of them at database time now.
RECURSIVE Replay(_, _, _, _)
Replay(trace, k, lens, now) ==
    IF k > Len(trace) THEN lens
    ELSE Replay(trace, k + 1, RelationalApply(lens, ApplyEvents[trace[k]], now), now)

\* C15: a second run of the events applied so far, started on the empty lens
\* at any other time, has the same snapshot hash for every stream as this run.
C15_SnapshotHashDeterministic ==
    \A w \in Worlds, b \in Branches, t \in 0..MaxClock :
        ComputeStateHash(Replay(applied.trace, 1, EmptyLens, t), w, b) = ComputeStateHash(rel_lens, w, b)

\* The largest global_seq among the applied events of the stream (w, b), 0 if
\* there is none: where a projection of the log in order leaves the watermark.
RECURSIVE LastSeqOfStream(_, _, _, _)
LastSeqOfStream(trace, k, w, b) ==
    IF k > Len(trace) THEN 0
    ELSE LET rest == LastSeqOfStream(trace, k + 1, w, b)
             seq == trace[k]
         IN  IF ApplyEvents[seq].world_id = w /\ ApplyEvents[seq].branch = b /\ seq > rest
             THEN seq ELSE rest

EmittedFor(emo_id) == SelectSeq(emitted, LAMBDA e : e.payload.emo_id = emo_id)

\* The first event is emo.created with version 1, and each later one is
\* emo.updated with the version of the one before it plus 1.
VersionedInOrder(events) ==
    \A k \in 1..Len(events) :
        IF k = 1
        THEN events[k].kind = "emo.created" /\ events[k].payload.emo_version = 1
        ELSE /\ events[k].kind = "emo.updated"
             /\ events[k].payload.emo_version = events[k - 1].payload.emo_version + 1

\* C19: for the memory.item.upserted events of one memory id in one stream,
\* the translator emits emo.created with emo_version 1 for the first and, for
\* each later one, emo.updated with the previous emo_version plus 1.
C19_UpsertsVersionedInOrder ==
    translator_run.restarts = 0 =>
        \A memory_id \in MemoryIds : VersionedInOrder(EmittedFor(DeriveEmoId(memory_id)))

\* C20: after a restart of the translator, which loses the version cache, the
\* versioning of each memory id continues from the last emitted emo_version:
\* no second emo.created and no repeated emo_version.
C20_RestartKeepsVersioning ==
    (translator_run.restarts > 0 /\ ~translator_run.overlapped) =>
        \A memory_id \in MemoryIds : VersionedInOrder(EmittedFor(DeriveEmoId(memory_id)))

\* The event log's row of the k-th event the translator emitted.
EmittedRows(k) == { r \in event_log : r.event_id = Uuid4(k) }

HasOutboxRow(r) == \E i \in DOMAIN outbox : outbox[i].global_seq = r.global_seq

\* C21: every emo.* event the translator emits is in the event log together
\* with an outbox row, as after a gateway append, so that the publisher
\* delivers it to the EMO projectors.
C21_EmittedWithOutboxRow ==
    \A k \in 1..Len(emitted) :
        /\ EmittedRows(k) # {}
        /\ \A r \in EmittedRows(k) : HasOutboxRow(r)

(***************************************************************************)
(* Properties of the gateway's requests (checked under GatewaySpec)        *)
(***************************************************************************)
\* C22: the payload_hash stored with every accepted event is the SHA-256 of
\* the canonical JSON of the event's payload alone.
C22_PayloadHashOfPayload ==
    \A i \in 1..Len(requests) :
        Accepted(i) => requests[i].payload_hash = Sha256(CanonicalJson(requests[i].payload))

\* The request that a call of create_event added.
Arrived == requests'[Len(requests')]

\* C23: an append whose Idempotency-Key header is present but empty is
\* answered 400 (validation error) before anything is written, and an append
\* without the header passes validation and goes on to be stored.
C23_EmptyKeyRejectedAbsentAccepted ==
    [][\A env \in GatewayEnvelopes, h \in GatewayHeaders :
           (GatewayCreateEvent(env, h) /\ ~EnvelopeInvalid(env) /\ h.correlation_id = NoCorrelationId) =>
               /\ (h.present /\ h.value = <<>>) => (Arrived.pc = "done" /\ Arrived.status = 400)
               /\ ~h.present => Arrived.pc = "check"]_vars

\* C24: the body of every 400, 409 and 500 answer of the append endpoint
\* carries the code of its error kind and the request's correlation id.
C24_ErrorBodyShape ==
    \A i \in 1..Len(requests) :
        (Done(i) /\ requests[i].status \in {400, 409, 500}) =>
            /\ requests[i].body.code = requests[i].kind
            /\ requests[i].body.correlation_id = requests[i].correlation_id

\* Everything but the kind is as the validation wants it.
OtherwiseValid(env, h) ==
    /\ ~HeaderInvalid(h)
    /\ ~EnvelopeInvalid([env EXCEPT !.kind = NoteCreatedKind])

\* C25: an otherwise valid envelope of kind memory.item.upserted or
\* memory.item.deleted passes the append endpoint's validation and goes on
\* to be stored.
C25_MemoryKindsAccepted ==
    [][\A env \in GatewayEnvelopes, h \in GatewayHeaders :
           (/\ GatewayCreateEvent(env, h)
            /\ env.kind \in {MemoryItemUpsertedKind, MemoryItemDeletedKind}
            /\ OtherwiseValid(env, h)) =>
               Arrived.pc = "check"]_vars

(***************************************************************************)
(* Properties of the publisher's delivery attempts (checked under PubSpec) *)
(***************************************************************************)
TaskOfEvent(s) == CHOOSE t \in 1..Len(batch) : batch[t] = s

\* C28: an outbox row is marked published only at the end of an attempt in
\* which every subscriber endpoint acknowledged the event; after an attempt in
\* which a subscriber failed the row is not marked published, and the next
\* attempt starts again with the first endpoint, whoever acknowledged before.
C28_PublishedOnlyAfterAllAcked ==
    [][/\ \A s \in DOMAIN outbox :
              /\ (~outbox[s].published /\ outbox'[s].published /\ s \notin dlq') =>
                     (InBatch(s) /\ tasks[TaskOfEvent(s)].success /\ delivery[s].acked = Projectors)
              /\ (InBatch(s) /\ batch' = <<>> /\ delivery[s].acked # Projectors) =>
                     (~outbox'[s].published \/ s \in dlq')
       /\ (batch = <<>> /\ batch' # <<>>) =>
              \A t \in 1..Len(batch') : tasks'[t].next = 1 /\ delivery'[batch'[t]].acked = {}]_vars

\* An event whose earlier attempt failed was delivered again to every
\* subscriber and is marked published.
C28_Witness ==
    \E s \in DOMAIN outbox :
        /\ delivery[s].failures >= 1
        /\ delivery[s].acked = Projectors
        /\ PublishedByAck(s)
        /\ ~InBatch(s)

\* C29: a subscriber's reply of 409 counts as a successful delivery: it leaves
\* the task's success as it was, so that it alone causes no mark_retry and no
\* move to the dead-letter queue.
C29_ConflictReplyIsSuccess ==
    [][\A t \in 1..Len(batch) : SendToProjector(t, 409) => tasks'[t].success = tasks[t].success]_vars

\* C30: at the end of an attempt a row enters the dead-letter queue with fewer
\* than MAX_RETRIES attempts exactly when a subscriber answered the attempt
\* with 400.
C30_StructuralRejectionToDlq ==
    [][UpdatePublishStatus =>
           \A t \in 1..Len(batch) :
               (batch[t] \in dlq' /\ outbox'[batch[t]].attempts < MAX_RETRIES) <=> tasks[t].rejected]_vars

(***************************************************************************)
(* Properties of event reception (checked under ReceiveSpec, TranslatorSpec)*)
(***************************************************************************)
\* C26: the relational projector's watermark of a stream is set to an event's
\* global_seq only in the step in which apply of that event has completed and
\* the event is answered 200; when apply fails the event is answered 500 and
\* the watermark is unchanged.
C26_WatermarkOnlyAfterApply ==
    [][\A st \in Streams :
           LET old == watermark["projector_rel"][st]
               new == watermark'["projector_rel"][st]
           IN  /\ (new # old /\ new # 0) =>
                      /\ applied'.reply = 200
                      /\ applied'.received = new
                      /\ StreamOf(ApplyEvents[new]) = st
                      /\ rel_lens' = RelationalApply(rel_lens, ApplyEvents[new], clock)
               /\ (applied'.count # applied.count /\ applied'.reply = 500) => new = old]_vars

\* An event beyond the stream's watermark was received, its apply failed, and
\* the watermark stayed where an earlier event had set it.
C26_Witness ==
    /\ applied.reply = 500
    /\ applied.received > 0
    /\ watermark["projector_rel"][StreamOf(ApplyEvents[applied.received])] # 0
    /\ watermark["projector_rel"][StreamOf(ApplyEvents[applied.received])] < applied.received

\* C27: a memory.item.upserted event that the translator has answered 200,
\* setting its watermark, has its emo.created or emo.updated event written to
\* the event log; a translation that failed is not acknowledged.
C27_AcknowledgedMeansWritten ==
    \A t \in 1..Len(translations) : translations[t].reply = 200 => translations[t].written

(***************************************************************************)
(* Properties of the payload hash between gateway and projector            *)
(* (checked under GatewaySpec and ReceiveSpec)                             *)
(***************************************************************************)
\* C32: for every accepted event, forwarded as it was stored, the hash the
\* projector recomputes from the envelope equals the payload_hash the gateway
\* computed, so that the event passes the projector's verification.
C32_ProjectorHashMatchesGateway ==
    \A i \in 1..Len(requests) :
        Accepted(i) => VerifyPayloadHash(requests[i].envelope, requests[i].payload_hash)

\* C31: a reception whose supplied payload_hash differs from the recomputed
\* hash is answered 400, and neither the lens nor the watermark changes.
C31_HashMismatchAnswered400 ==
    [][\A i \in ReceivedEvents :
          ReceiveEventHashMismatch(i) =>
              /\ applied'.reply = 400
              /\ rel_lens' = rel_lens
              /\ watermark' = watermark]_vars

(***************************************************************************)
(* Properties of the outbox rows' states (checked under PubSpec)           *)
(***************************************************************************)
\* The state of the outbox row s: in the DLQ, published, retry-scheduled (a
\* failed attempt was counted) or unpublished.
RowState(ob, dead, s) ==
    IF s \in dead THEN "dlq"
    ELSE IF ob[s].published THEN "published"
    ELSE IF ob[s].attempts > 0 THEN "retry-scheduled"
    ELSE "unpublished"

\* The state changes of the rows in one step.
RowStateChanges ==
    { <<RowState(outbox, dlq, s), RowState(outbox', dlq', s)>> : s \in DOMAIN outbox } \
        { <<st, st>> : st \in {"unpublished", "retry-scheduled", "published", "dlq"} }

\* C33 as stated: a row changes state only from unpublished to published,
\* from unpublished to retry-scheduled, or from retry-scheduled to dlq.
C33_OnlyStatedTransitions ==
    [][RowStateChanges \subseteq
           { <<"unpublished", "published">>, <<"unpublished", "retry-scheduled">>,
             <<"retry-scheduled", "dlq">> }]_vars

\* C33, amended: a row changes state only from unpublished to published, from
\* unpublished to retry-scheduled, from retry-scheduled to published (a retry
\* that every subscriber acknowledged) or from retry-scheduled to dlq; a row
\* that is published or in the DLQ never changes state again.
C33_RowTransitions ==
    [][RowStateChanges \subseteq
           { <<"unpublished", "published">>, <<"unpublished", "retry-scheduled">>,
             <<"retry-scheduled", "published">>, <<"retry-scheduled", "dlq">> }]_vars

\* One row is in the DLQ and another was published after a scheduled retry.
C33_Witness ==
    /\ \E s \in DOMAIN outbox : RowState(outbox, dlq, s) = "dlq"
    /\ \E s \in DOMAIN outbox : RowState(outbox, dlq, s) = "published" /\ outbox[s].attempts > 0

(***************************************************************************)
(* Properties of concurrent publisher workers and of the publisher's       *)
(* shutdown (checked under WorkersSpec)                                    *)
(***************************************************************************)
\* The rows a worker holds: fetched, and their status not yet committed.
Claimed(w) ==
    IF workers[w].pc \in {"fetch", "deliver", "commit"}
    THEN { workers[w].batch[t] : t \in (1..Len(workers[w].batch)) \ workers[w].committed }
    ELSE {}

\* C34: no outbox row is claimed by two workers at once: a row that one worker
\* fetched and has not yet committed is not in another worker's batch.
C34_NoRowClaimedTwice ==
    \A v, w \in Workers : v # w => Claimed(v) \cap Claimed(w) = {}

\* C40: when a publisher has shut down, the status of every event of its
\* batch whose delivery had finished is committed, and no status is committed
\* for an event whose delivery was cancelled.
C40_ShutdownCommitsFinished ==
    \A w \in Workers :
        workers[w].pc = "stopped" =>
            \A t \in DOMAIN workers[w].results :
                /\ workers[w].results[t] \in {"True", "False"} => t \in workers[w].committed
                /\ workers[w].results[t] = "cancelled" => t \notin workers[w].committed

(***************************************************************************)
(* Properties of a projector's concurrent receptions (checked under        *)
(* ConcurrentSpec)                                                         *)
(***************************************************************************)
\* C35: the apply-and-watermark steps of two receptions of one stream never
\* interleave: no reception starts its apply while another reception of the
\* stream is between the start of its apply and the end of its set_watermark.
C35_ApplyAndWatermarkSerialized ==
    \A r \in 1..Len(receptions) : ~receptions[r].overlapped

\* C36: the statements of apply for an event of world W run under the tenant
\* context W, whatever other receptions do with the pool's connections.
C36_ApplyUnderOwnWorldContext ==
    \A r \in 1..Len(receptions) :
        receptions[r].pc \in {"applying", "watermark"} =>
            receptions[r].apply_context = ApplyEvents[receptions[r].event].world_id

(***************************************************************************)
(* Properties of the relational projector's emo.linked (checked under      *)
(* ApplySpec)                                                              *)
(***************************************************************************)
\* The emo.linked events of the log, and the EMO rows an event is about.
LinkedEvents == { i \in 1..Len(ApplyEvents) : ApplyEvents[i].kind = "emo.linked" }

EmoRows(rows, i) ==
    { e \in rows : IsEmo(e, ApplyEvents[i].world_id, ApplyEvents[i].branch, ApplyEvents[i].payload.emo_id) }

\* C37: after emo.linked with version v was applied to an existing EMO, the
\* EMO's emo_version is v, its content is what it was, and emo_history has a
\* row of version v with operation linked.
C37_LinkedRaisesVersion ==
    \A i \in LinkedEvents :
        (applied.count > 0 /\ applied.event = i /\ EmoRows(applied.before.emo_current, i) # {}) =>
            /\ \A e \in EmoRows(rel_lens.emo_current, i) : e.emo_version = ApplyEvents[i].payload.emo_version
            /\ { e.content : e \in EmoRows(rel_lens.emo_current, i) } =
                   { e.content : e \in EmoRows(applied.before.emo_current, i) }
            /\ \E h \in EmoRows(rel_lens.emo_history, i) :
                   h.emo_version = ApplyEvents[i].payload.emo_version /\ h.operation_type = "linked"

\* The rows of emo_links, as a set.
LinkRows(lens) == { lens.emo_links[k] : k \in 1..Len(lens.emo_links) }

\* C38: after emo.linked was applied, every emo_links row that was there
\* before is still there, and the event's parents and its links are there.
C38_LinkedMergesLinks ==
    \A i \in LinkedEvents :
        (applied.count > 0 /\ applied.event = i) =>
            /\ \A old \in LinkRows(applied.before) :
                   \E new \in LinkRows(rel_lens) :
                       /\ new.emo_id = old.emo_id /\ new.world_id = old.world_id /\ new.branch = old.branch
                       /\ new.rel = old.rel /\ new.target_emo_id = old.target_emo_id
                       /\ new.target_uri = old.target_uri
            /\ \A k \in 1..Len(ApplyEvents[i].payload.parents) :
                   \E new \in EmoRows(LinkRows(rel_lens), i) :
                       new.rel = ApplyEvents[i].payload.parents[k].rel
                           /\ new.target_emo_id = ApplyEvents[i].payload.parents[k].emo_id
            /\ \A k \in 1..Len(ApplyEvents[i].payload.links) :
                   ApplyEvents[i].payload.links[k].kind \in {"emo", "uri"} =>
                       \E new \in EmoRows(LinkRows(rel_lens), i) :
                           ApplyEvents[i].payload.links[k].ref \in {new.target_emo_id, new.target_uri}

(***************************************************************************)
(* Properties of the translator under redelivery (checked under            *)
(* RedeliverySpec)                                                         *)
(***************************************************************************)
\* The receptions of one memory event: the first one and its redeliveries.
DeliveriesOf(t) == { u \in 1..Len(translations) : u = t \/ translations[u].redelivery_of = t }

\* C39: for one memory event, however often it is delivered to the
\* translator, at most one emo.* event is written: a redelivered upsert
\* produces no further emo.created and no emo.updated of a higher version.
C39_RedeliveryTranslatedOnce ==
    \A t \in 1..Len(translations) :
        translations[t].redelivery_of = 0 =>
            Cardinality({ u \in DeliveriesOf(t) : translations[u].written }) <= 1

====
